---- MODULE Spec2Model ----
(***************************************************************************)
(* Verification model of the population-protocol simulator                 *)
(* (manpen/population-simulator): the urn containers, the epoch-length     *)
(* controller and the batched epoch engine.                                *)
(***************************************************************************)
EXTENDS Integers, Sequences, FiniteSets, TLC

VARIABLES
    \* ---- urn harness (tests/UrnsTest.cpp drives one urn against a reference)
    kind,        \* urn type under test: "tree", "alias", "linear", "weighted"
    urn,         \* the urn object (record of the fields of its class)
    ref,         \* reference multiset kept by the test (nums_balls)
    last,        \* the last operation and what it returned
    walk,        \* position of a sample_without_replacement walk
    \* ---- simulators
    eng          \* the simulators that run: one, or two runs with one seed

vars == <<kind, urn, ref, last, walk, eng>>

\* ------------------------------------------------------------------ bounds
MaxColors == 5      \* largest number_of_colors of an urn under test
MaxBalls == 3      \* largest number of balls held by an urn under test
MaxAdd == 2      \* largest n of one add_balls call
MaxAliasColors == 2 \* largest number_of_colors of an AliasUrnSimple under test
MaxAliasBalls == 5  \* largest number of balls held by an AliasUrnSimple
MaxRebuildColors == 4 \* largest number_of_colors of a bulk-filled AliasUrnSimple
MaxRebuildBalls == 8  \* largest number of balls of a bulk-filled AliasUrnSimple
NumAgents == 12     \* agents of a simulated population
MaxRuns == 2        \* runs (planted collisions) of a batch simulation, free draws
MaxDelayed == 6     \* delayed agents of an epoch, free draws
MaxEpochs == 2      \* epochs of a simulation, free draws
MaxSeedEpochs == 38 \* epochs of each of two seeded runs
MaxSeed == 2        \* seeds of the seeded generator
MaxControllerAgents == 40  \* largest n an EpochLengthController is built from
MaxConstructAgents == 20   \* largest population an engine is constructed from
MaxConstructStates == 2    \* largest number of states of such an engine
MaxConstructUpdates == 12  \* epochs of an engine constructed for its set_red calls
MaxBlocks == 3             \* largest num_blocks of an AsyncRandomEngine
ElementsInBlock == 2       \* the template parameter ElementsInBlock
SamplingAgents == 20       \* agents of a population in its sampling phase
MaxSamplingRuns == 6       \* runs of one sampling phase
MaxSignedColors == 3       \* largest number_of_colors of an urn under signed add_balls
MaxSignedBalls == 4        \* largest filling of such an urn
MaxSmallAgents == 6        \* largest of the small populations, 2 the smallest
MaxSmallRuns == 3          \* runs of a simulation of a small population
MaxControllerUpdates == 75 \* update() calls made on a controller

\* states of the increment protocols: no agent can pass the last one
BatchStates == 2 * MaxRuns + MaxEpochs + 2
RefStates == 10 * MaxEpochs + 2

\* ----------------------------------------------------------------- helpers
Min(a, b) == IF a < b THEN a ELSE b
Max(a, b) == IF a > b THEN a ELSE b

RECURSIVE SumTo(_, _)
\* f[0] + ... + f[k-1]
SumTo(f, k) == IF k = 0 THEN 0 ELSE f[k - 1] + SumTo(f, k - 1)

\* all vectors over colors 0..S-1 with entries 0..m and at most m balls
RECURSIVE Tuples(_, _)
\* the sequences of S naturals whose sum is at most m
Tuples(S, m) ==
    IF S = 0 THEN {<<>>}
    ELSE UNION {{Append(v, x) : v \in Tuples(S - 1, m - x)} : x \in 0 .. m}

\* the count vectors over the colors 0 .. S-1 holding at most m balls
Vectors(S, m) == {[c \in 0 .. S - 1 |-> v[c + 1]] : v \in Tuples(S, m)}

\* support of sampling::hypergeometric_distribution(good, bad, samples):
\* the number of good balls among `samples` balls drawn without replacement
HypergeometricSupport(good, bad, samples) ==
    Max(0, samples - bad) .. Min(good, samples)

\* ============================================================ WeightedUrn
WeightedUrn(S) ==
    [balls_with_color_ |-> [c \in 0 .. S - 1 |-> 0], number_of_balls_ |-> 0]

WU_number_of_colors(u) == Cardinality(DOMAIN u.balls_with_color_)

WU_add_balls(u, col, n) ==
    [u EXCEPT !.balls_with_color_[col] = @ + n, !.number_of_balls_ = @ + n]

WU_remove_balls(u, col, n) ==
    [u EXCEPT !.balls_with_color_[col] = @ - n, !.number_of_balls_ = @ - n]

RECURSIVE WU_scan(_, _, _)
\* the linear scan of get_random_ball: first color it with *it > variate
WU_scan(balls, it, variate) ==
    IF balls[it] <= variate THEN WU_scan(balls, it + 1, variate - balls[it])
    ELSE it

WU_get_random_ball(u, variate) == WU_scan(u.balls_with_color_, 0, variate)

\* mutant: the removal forgets to decrement the total
WU_remove_random_ball_KeepTotal(u, variate) ==
    LET color == WU_get_random_ball(u, variate)
    IN  [urn |-> [u EXCEPT !.balls_with_color_[color] = @ - 1],
         color |-> color]

WU_remove_random_ball(u, variate) ==
    LET color == WU_get_random_ball(u, variate)
    IN  [urn |-> [u EXCEPT !.balls_with_color_[color] = @ - 1,
                           !.number_of_balls_ = @ - 1],
         color |-> color]

WU_add_urn(u, o) ==
    [balls_with_color_ |->
        [c \in DOMAIN u.balls_with_color_ |->
            u.balls_with_color_[c] + o.balls_with_color_[c]],
     number_of_balls_ |-> u.number_of_balls_ + o.number_of_balls_]

WU_clear(u) ==
    [balls_with_color_ |-> [c \in DOMAIN u.balls_with_color_ |-> 0],
     number_of_balls_ |-> 0]

\* ============================================================== LinearUrn
LinearUrn(S) == [number_of_balls_ |-> 0, balls_ |-> [c \in 0 .. S - 1 |-> 0]]

LU_add_balls(u, col, n) ==
    [u EXCEPT !.number_of_balls_ = @ + n, !.balls_[col] = @ + n]

RECURSIVE LU_scan(_, _, _)
LU_scan(balls, i, value) ==
    IF balls[i] > value THEN i ELSE LU_scan(balls, i + 1, value - balls[i])

LU_get_random_ball(u, value) == LU_scan(u.balls_, 0, value)

LU_remove_random_ball(u, value) ==
    LET i == LU_scan(u.balls_, 0, value)
    IN  [urn |-> [u EXCEPT !.number_of_balls_ = @ - 1, !.balls_[i] = @ - 1],
         color |-> i]

\* ================================================================ TreeUrn
RECURSIVE round_up_to_power_of_two(_)
\* tlx::round_up_to_power_of_two: the smallest power of two >= n
round_up_to_power_of_two(n) ==
    IF n <= 1 THEN 1 ELSE 2 * round_up_to_power_of_two((n + 1) \div 2)

RECURSIVE TrailingOnes(_)
TrailingOnes(i) == IF i % 2 = 1 THEN 1 + TrailingOnes(i \div 2) ELSE 0

RECURSIVE Pow2(_)
Pow2(k) == IF k = 0 THEN 1 ELSE 2 * Pow2(k - 1)

\* tlx::ffs(~i): 1-based position of the lowest zero bit of i
ffs_not(i) == TrailingOnes(i) + 1

\* tree is tree_1indexed_: internal nodes 1 .. first_leaf_-1 hold the weight
\* of their left subtree, leaf of color c is tree[first_leaf_ + c]
TreeUrn(S) ==
    LET fl == round_up_to_power_of_two(S)
    IN  [number_of_balls_ |-> 0, number_of_colors_ |-> S, first_leaf_ |-> fl,
         tree |-> [i \in 1 .. fl + S |-> 0]]

TU_number_of_balls_with_color(u, col) == u.tree[u.first_leaf_ + col]

TU_balls(u) ==
    [c \in 0 .. u.number_of_colors_ - 1 |-> TU_number_of_balls_with_color(u, c)]

\* the lambda `step` of add_balls
TU_add_step(st, n) ==
    LET parent == st.i \div 2
        isLeft == IF st.i % 2 = 0 THEN 1 ELSE 0
    IN  [t |-> [st.t EXCEPT ![parent] = @ + isLeft * n], i |-> parent]

RECURSIVE TU_add_loop(_, _)
TU_add_loop(st, n) ==
    LET a == IF st.i >= 16
             THEN TU_add_step(TU_add_step(TU_add_step(st, n), n), n)
             ELSE st
        b == TU_add_step(a, n)
    IN  IF b.i > 1 THEN TU_add_loop(b, n) ELSE b.t

TU_add_balls(u, col, n) ==
    LET t == TU_add_loop([t |-> u.tree, i |-> u.first_leaf_ + col], n)
    IN  [u EXCEPT !.number_of_balls_ = @ + n,
                  !.tree = [t EXCEPT ![u.first_leaf_ + col] = @ + n]]

TU_set_balls(u, col, n) ==
    TU_add_balls(u, col, n - TU_number_of_balls_with_color(u, col))

TU_remove_balls(u, col, n) == TU_add_balls(u, col, 0 - n)

\* the lambda `step` of remove_random_ball_with_index (dec = TRUE) and of
\* get_random_ball_with_index (dec = FALSE)
\* mutant: a variate equal to the left weight still goes left
TU_down_step_Strict(st, dec) ==
    LET leftWeight == st.t[st.i]
        toRight == st.value > leftWeight
    IN  [t |-> IF dec /\ ~toRight THEN [st.t EXCEPT ![st.i] = @ - 1] ELSE st.t,
         value |-> IF toRight THEN st.value - leftWeight ELSE st.value,
         i |-> 2 * st.i + (IF toRight THEN 1 ELSE 0)]

TU_down_step(st, dec) ==
    LET leftWeight == st.t[st.i]
        toRight == st.value >= leftWeight
    IN  [t |-> IF dec /\ ~toRight THEN [st.t EXCEPT ![st.i] = @ - 1] ELSE st.t,
         value |-> IF toRight THEN st.value - leftWeight ELSE st.value,
         i |-> 2 * st.i + (IF toRight THEN 1 ELSE 0)]

RECURSIVE TU_down_loop(_, _, _)
TU_down_loop(st, first_leaf, dec) ==
    LET a == IF 8 * st.i + 7 < first_leaf
             THEN TU_down_step(TU_down_step(TU_down_step(st, dec), dec), dec)
             ELSE st
        b == TU_down_step(a, dec)
    IN  IF b.i < first_leaf THEN TU_down_loop(b, first_leaf, dec) ELSE b

TU_remove_random_ball_with_index(u, value) ==
    LET e == TU_down_loop([t |-> u.tree, value |-> value, i |-> 1],
                          u.first_leaf_, TRUE)
        col == e.i - u.first_leaf_
    IN  [urn |-> [u EXCEPT !.number_of_balls_ = @ - 1,
                           !.tree = [e.t EXCEPT ![e.i] = @ - 1]],
         color |-> col, index |-> e.value]

TU_get_random_ball_with_index(u, value) ==
    LET e == TU_down_loop([t |-> u.tree, value |-> value, i |-> 1],
                          u.first_leaf_, FALSE)
    IN  [color |-> e.i - u.first_leaf_, index |-> e.value]

RECURSIVE TU_build_loop(_, _)
TU_build_loop(t, i) ==
    IF i = 0 THEN t
    ELSE LET parent == i \div Pow2(ffs_not(i))
         IN  TU_build_loop(IF parent = 0 THEN t
                           ELSE [t EXCEPT ![parent] = @ + t[i]], i - 1)

\* mutant: the rebuild does not reset the internal nodes first
TU_build_tree_from_balls_NoReset(u) ==
    [u EXCEPT !.tree =
        TU_build_loop(u.tree, u.first_leaf_ + u.number_of_colors_ - 1)]

TU_build_tree_from_balls(u) ==
    LET zeroed == [i \in DOMAIN u.tree |->
                      IF i < u.first_leaf_ THEN 0 ELSE u.tree[i]]
    IN  [u EXCEPT !.tree =
            TU_build_loop(zeroed, u.first_leaf_ + u.number_of_colors_ - 1)]

\* mutant: the leaves are merged but the internal nodes are not rebuilt
TU_add_urn_generic_NoRebuild(u, obal, onum) ==
    [u EXCEPT !.tree = [i \in DOMAIN u.tree |->
                           IF i >= u.first_leaf_
                              /\ i < u.first_leaf_ + u.number_of_colors_
                           THEN u.tree[i] + obal[i - u.first_leaf_]
                           ELSE u.tree[i]],
              !.number_of_balls_ = @ + onum]

\* template <typename Urn> add_urn(const Urn&): counts and total of `other`
TU_add_urn_generic(u, obal, onum) ==
    TU_build_tree_from_balls(
        [u EXCEPT !.tree = [i \in DOMAIN u.tree |->
                               IF i >= u.first_leaf_
                                  /\ i < u.first_leaf_ + u.number_of_colors_
                               THEN u.tree[i] + obal[i - u.first_leaf_]
                               ELSE u.tree[i]],
                  !.number_of_balls_ = @ + onum])

\* add_urn(const TreeUrn&): node-wise addition of the two storages
TU_add_urn(u, o) ==
    [u EXCEPT !.tree = [i \in DOMAIN u.tree |-> u.tree[i] + o.tree[i]],
              !.number_of_balls_ = @ + o.number_of_balls_]

TU_clear(u) ==
    [u EXCEPT !.number_of_balls_ = 0, !.tree = [i \in DOMAIN u.tree |-> 0]]

RECURSIVE TU_fill(_, _, _)
\* a TreeUrn filled by add_balls(c, f[c]) for the colors c < k
TU_fill(u, f, k) ==
    IF k = 0 THEN u ELSE TU_add_balls(TU_fill(u, f, k - 1), k - 1, f[k - 1])

\* ========================================================= AliasUrnSimple
\* struct Row {weights[0], weights[1], color2}
Row(w1, w2, c2) == [w0 |-> w1, w1 |-> w2, color2 |-> c2]

total_weight(row) == row.w0 + row.w1

AliasUrnSimple(S) ==
    [number_of_balls_ |-> 0,
     alias_table_ |-> [c \in 0 .. S - 1 |-> Row(0, 0, 0)],
     balls_with_color_ |-> [c \in 0 .. S - 1 |-> 0],
     row_weight_lower_ |-> 0, row_weight_upper_ |-> 0, row_current_max_ |-> 0]

AU_number_of_colors(u) == Cardinality(DOMAIN u.alias_table_)

\* param_lower_threshold_ = 0.8: static_cast<value_type>(avg * 0.8)
LowerThreshold(avg) == (avg * 4) \div 5
\* param_upper_threshold_ = 1.5: ceil(max * 1.5)
UpperThreshold(max) == (max * 3 + 1) \div 2

RECURSIVE AU_categorize(_, _, _, _)
\* categorize_into_small_and_large, colors i .. S-1 still to visit
AU_categorize(u, i, avg, st) ==
    IF i = AU_number_of_colors(u) THEN st
    ELSE LET num == u.balls_with_color_[i]
         IN  AU_categorize(u, i + 1, avg,
                [table |-> [st.table EXCEPT ![i].w0 = num, ![i].w1 = 0],
                 small |-> IF num > avg THEN st.small ELSE Append(st.small, i),
                 large |-> IF num > avg THEN Append(st.large, i) ELSE st.large])

RECURSIVE AU_split(_, _, _)
\* the while loop of split_large_elements; ok = FALSE when it would take the
\* back() of an empty small_elements_
AU_split(st, avg, above) ==
    IF st.large = <<>> THEN [table |-> st.table, ok |-> TRUE]
    ELSE IF st.small = <<>> THEN [table |-> st.table, ok |-> FALSE]
    ELSE
      LET r == st.small[Len(st.small)]
          small1 == SubSeq(st.small, 1, Len(st.small) - 1)
          remaining == avg + (IF above > 0 THEN 1 ELSE 0) - st.table[r].w0
          large_id == st.large[Len(st.large)]
          large_weight == st.table[large_id].w0 - remaining
          t1 == [st.table EXCEPT ![large_id].w0 = large_weight]
          t2 == [t1 EXCEPT ![r].w1 = remaining, ![r].color2 = large_id]
      IN  IF remaining = 0
          THEN AU_split([st EXCEPT !.small = small1], avg, above - 1)
          ELSE IF large_weight <= avg
          THEN AU_split([table |-> t2, small |-> Append(small1, large_id),
                         large |-> SubSeq(st.large, 1, Len(st.large) - 1)],
                        avg, above - 1)
          ELSE AU_split([table |-> t2, small |-> small1, large |-> st.large],
                        avg, above - 1)

\* mutant: the remainder of N / S is not handed out to the rows
AU_rebuild_FloorOnly(u) ==
    LET S == AU_number_of_colors(u)
        average_floored == u.number_of_balls_ \div S
        cat == AU_categorize(u, 0, average_floored,
                   [table |-> u.alias_table_, small |-> <<>>, large |-> <<>>])
    IN  AU_split(cat, average_floored, 0)

AU_rebuild(u) ==
    LET S == AU_number_of_colors(u)
        average_floored == u.number_of_balls_ \div S
        num_above_avg == u.number_of_balls_ - average_floored * S
        cat == AU_categorize(u, 0, average_floored,
                   [table |-> u.alias_table_, small |-> <<>>, large |-> <<>>])
    IN  AU_split(cat, average_floored, num_above_avg)

\* build_alias_table = categorize_into_small_and_large; split_large_elements
AU_build_alias_table(u) ==
    LET S == AU_number_of_colors(u)
        average_floored == u.number_of_balls_ \div S
        num_above_avg == u.number_of_balls_ - average_floored * S
        row_max == average_floored + (IF num_above_avg > 0 THEN 1 ELSE 0)
    IN  [u EXCEPT !.alias_table_ = AU_rebuild(u).table,
                  !.row_weight_lower_ = LowerThreshold(average_floored),
                  !.row_current_max_ = row_max,
                  !.row_weight_upper_ = UpperThreshold(row_max)]

\* the test of try_fix_row for one partner
AU_fixable(u, row_id, partner_id) ==
    LET row == u.alias_table_[row_id]
        partner_row == u.alias_table_[partner_id]
        w1 == row.w0 + partner_row.w1
        w2 == row.w1 + partner_row.w0
    IN  /\ partner_id # row_id
        /\ u.row_weight_lower_ < w1 /\ u.row_weight_lower_ < w2
        /\ w1 < u.row_weight_upper_ /\ w2 < u.row_weight_upper_

\* outcomes of try_fix_row: the partner of the swap, or -1 when none of the
\* five random partners passes the test
AU_fix_choices(u, row_id) ==
    {-1} \cup {p \in DOMAIN u.alias_table_ : AU_fixable(u, row_id, p)}

\* try_fix_row, then build_alias_table when it returned false
\* mutant: the swap copies the partner's second bucket without giving its own
AU_try_fix_row_OneSided(u, row_id, partner_id) ==
    IF partner_id = -1 THEN AU_build_alias_table(u)
    ELSE LET row == u.alias_table_[row_id]
             partner_row == u.alias_table_[partner_id]
         IN  [u EXCEPT !.alias_table_ =
                [u.alias_table_ EXCEPT
                    ![row_id] = Row(row.w0, partner_row.w1, partner_row.color2)]]

AU_try_fix_row(u, row_id, partner_id) ==
    IF partner_id = -1 THEN AU_build_alias_table(u)
    ELSE LET row == u.alias_table_[row_id]
             partner_row == u.alias_table_[partner_id]
         IN  [u EXCEPT !.alias_table_ =
                [u.alias_table_ EXCEPT
                    ![row_id] = Row(row.w0, partner_row.w1, partner_row.color2),
                    ![partner_id] = Row(partner_row.w0, row.w1, row.color2)]]

\* add_balls up to assert_consistency()
AU_add_update(u, col, n) ==
    LET new_weight == total_weight(u.alias_table_[col]) + n
    IN  [u EXCEPT !.alias_table_[col].w0 = @ + n,
                  !.balls_with_color_[col] = @ + n,
                  !.number_of_balls_ = @ + n,
                  !.row_current_max_ = IF @ < new_weight THEN new_weight ELSE @]

AU_add_needs_fix(u1, col) ==
    LET new_weight == total_weight(u1.alias_table_[col])
    IN  new_weight < u1.row_weight_lower_ \/ u1.row_weight_upper_ < new_weight

AU_add_balls(u, col, n, fix) ==
    LET u1 == AU_add_update(u, col, n)
    IN  IF AU_add_needs_fix(u1, col) THEN AU_try_fix_row(u1, col, fix) ELSE u1

AU_add_fix_choices(u, col, n) ==
    LET u1 == AU_add_update(u, col, n)
    IN  IF AU_add_needs_fix(u1, col) THEN AU_fix_choices(u1, col) ELSE {-1}

\* accepted draws of get_random_ball_: a row and a weight below the row's
\* stored weight (rejected draws are repeated)
AU_draws(u) ==
    {d \in (DOMAIN u.alias_table_) \X (0 .. u.row_current_max_ - 1) :
        d[2] < total_weight(u.alias_table_[d[1]])}

AU_get_random_ball_(u, d) ==
    LET row == u.alias_table_[d[1]]
    IN  IF d[2] < row.w0
        THEN [row_id |-> d[1], color |-> d[1], column_id |-> 0]
        ELSE [row_id |-> d[1], color |-> row.color2, column_id |-> 1]

\* remove_random_ball up to assert_consistency()
AU_remove_update(u, d) ==
    LET g == AU_get_random_ball_(u, d)
    IN  [u EXCEPT !.balls_with_color_[g.color] = @ - 1,
                  !.number_of_balls_ = @ - 1,
                  !.alias_table_[g.row_id] =
                      IF g.column_id = 0 THEN [@ EXCEPT !.w0 = @ - 1]
                      ELSE [@ EXCEPT !.w1 = @ - 1]]

AU_remove_needs_fix(u1, row_id) ==
    total_weight(u1.alias_table_[row_id]) < u1.row_weight_lower_

AU_remove_random_ball(u, d, fix) ==
    LET u1 == AU_remove_update(u, d)
    IN  [urn |-> IF AU_remove_needs_fix(u1, d[1])
                 THEN AU_try_fix_row(u1, d[1], fix) ELSE u1,
         color |-> AU_get_random_ball_(u, d).color]

AU_remove_fix_choices(u, d) ==
    LET u1 == AU_remove_update(u, d)
    IN  IF AU_remove_needs_fix(u1, d[1]) THEN AU_fix_choices(u1, d[1]) ELSE {-1}

AU_bulk_add_balls(u, col, n) ==
    [u EXCEPT !.number_of_balls_ = @ + n, !.balls_with_color_[col] = @ + n]

AU_add_urn(u, obal, onum) ==
    AU_build_alias_table(
        [u EXCEPT !.balls_with_color_ =
                      [c \in DOMAIN u.balls_with_color_ |->
                          u.balls_with_color_[c] + obal[c]],
                  !.number_of_balls_ = @ + onum])

\* ============================================================ urn harness
Kinds == {"tree", "alias", "linear", "weighted"}

NewUrn(k, S) ==
    CASE k = "tree" -> TreeUrn(S)
      [] k = "alias" -> AliasUrnSimple(S)
      [] k = "linear" -> LinearUrn(S)
      [] OTHER -> WeightedUrn(S)

\* number_of_balls()
number_of_balls(k, u) == u.number_of_balls_

\* number_of_colors()
number_of_colors(k, u) ==
    CASE k = "tree" -> u.number_of_colors_
      [] k = "alias" -> AU_number_of_colors(u)
      [] k = "linear" -> Cardinality(DOMAIN u.balls_)
      [] OTHER -> WU_number_of_colors(u)

\* number_of_balls_with_color(col)
number_of_balls_with_color(k, u, col) ==
    CASE k = "tree" -> TU_number_of_balls_with_color(u, col)
      [] k = "linear" -> u.balls_[col]
      [] OTHER -> u.balls_with_color_[col]

Balls(k, u) ==
    [c \in 0 .. number_of_colors(k, u) - 1 |-> number_of_balls_with_color(k, u, c)]

Colors == 0 .. number_of_colors(kind, urn) - 1

\* the balls an urn under test may hold
Capacity == IF kind = "alias" THEN MaxAliasBalls ELSE MaxBalls

NoWalk ==
    [phase |-> "idle", k |-> 0, removing |-> FALSE, it_from |-> 0,
     left_to_sample |-> 0, unconsidered_balls |-> 0, emitted |-> <<>>,
     at_call |-> <<>>]

\* what the harness remembers of an operation: its name, the color it took or
\* returned, for add_urn the merged urn and the balls held before, and how an
\* AliasUrnSimple repaired its table ("none", "swap" or "rebuild")
Done(op, color, other) ==
    [op |-> op, color |-> color,
     pre |-> IF other = <<>> THEN <<>> ELSE Balls(kind, urn),
     pre_n |-> IF other = <<>> THEN 0 ELSE number_of_balls(kind, urn),
     other |-> other, repair |-> "none"]

\* the branch add_balls / remove_random_ball took after its update
Repair(needs_fix, fix) ==
    IF ~needs_fix THEN "none" ELSE IF fix = -1 THEN "rebuild" ELSE "swap"

UrnInit ==
    /\ kind \in Kinds
    /\ \E S \in 2 .. MaxColors :
          /\ kind = "alias" => S <= MaxAliasColors
          /\ urn = NewUrn(kind, S)
          /\ ref = [c \in 0 .. S - 1 |-> 0]
    /\ last = [op |-> "new", color |-> -1, pre |-> <<>>, pre_n |-> 0,
               other |-> <<>>, repair |-> "none"]
    /\ walk = NoWalk
    /\ eng = <<>>

\* urn.add_balls(col, n); the test adds n to nums_balls[col]
AddBalls(col, n) ==
    /\ walk.phase = "idle"
    /\ number_of_balls(kind, urn) + n <= Capacity
    /\ \/ /\ kind = "tree" /\ urn' = TU_add_balls(urn, col, n)
          /\ last' = Done("add_balls", col, <<>>)
       \/ /\ kind = "linear" /\ urn' = LU_add_balls(urn, col, n)
          /\ last' = Done("add_balls", col, <<>>)
       \/ /\ kind = "weighted" /\ urn' = WU_add_balls(urn, col, n)
          /\ last' = Done("add_balls", col, <<>>)
       \/ /\ kind = "alias"
          /\ \E fix \in AU_add_fix_choices(urn, col, n) :
                /\ urn' = AU_add_balls(urn, col, n, fix)
                /\ last' = [Done("add_balls", col, <<>>) EXCEPT !.repair =
                      Repair(AU_add_needs_fix(AU_add_update(urn, col, n), col),
                             fix)]
    /\ ref' = [ref EXCEPT ![col] = @ + n]
    /\ walk' = NoWalk
    /\ UNCHANGED <<kind, eng>>

\* urn.remove_balls(col, n) with n <= balls of that color
RemoveBalls(col, n) ==
    /\ walk.phase = "idle"
    /\ kind \in {"tree", "weighted"}
    /\ n <= number_of_balls_with_color(kind, urn, col)
    /\ urn' = IF kind = "tree" THEN TU_remove_balls(urn, col, n)
              ELSE WU_remove_balls(urn, col, n)
    /\ ref' = [ref EXCEPT ![col] = @ - n]
    /\ last' = Done("remove_balls", col, <<>>)
    /\ walk' = NoWalk
    /\ UNCHANGED <<kind, eng>>

\* TreeUrn::set_balls(col, n)
SetBalls(col, n) ==
    /\ walk.phase = "idle"
    /\ kind = "tree"
    /\ number_of_balls(kind, urn) - number_of_balls_with_color(kind, urn, col) + n
          <= MaxBalls
    /\ urn' = TU_set_balls(urn, col, n)
    /\ ref' = [ref EXCEPT ![col] = n]
    /\ last' = Done("set_balls", col, <<>>)
    /\ walk' = NoWalk
    /\ UNCHANGED <<kind, eng>>

\* color = urn.remove_random_ball(gen); the test decrements nums_balls[color]
RemoveRandomBall ==
    /\ walk.phase = "idle"
    /\ number_of_balls(kind, urn) > 0
    /\ \E res \in
          IF kind = "alias"
          THEN {[urn |-> AU_remove_random_ball(urn, d[1], d[2]).urn,
                 color |-> AU_remove_random_ball(urn, d[1], d[2]).color,
                 repair |-> Repair(AU_remove_needs_fix(
                                       AU_remove_update(urn, d[1]), d[1][1]),
                                   d[2])] :
                  d \in {e \in AU_draws(urn) \X (-1 .. MaxColors) :
                            e[2] \in AU_remove_fix_choices(urn, e[1])}}
          ELSE {IF kind = "tree"
                THEN [urn |-> TU_remove_random_ball_with_index(urn, v).urn,
                      color |-> TU_remove_random_ball_with_index(urn, v).color,
                      repair |-> "none"]
                ELSE IF kind = "linear"
                THEN [urn |-> LU_remove_random_ball(urn, v).urn,
                      color |-> LU_remove_random_ball(urn, v).color,
                      repair |-> "none"]
                ELSE [urn |-> WU_remove_random_ball(urn, v).urn,
                      color |-> WU_remove_random_ball(urn, v).color,
                      repair |-> "none"] :
                  v \in 0 .. number_of_balls(kind, urn) - 1} :
          /\ urn' = res.urn
          /\ ref' = IF res.color \in DOMAIN ref
                    THEN [ref EXCEPT ![res.color] = @ - 1] ELSE ref
          /\ last' = [Done("remove_random_ball", res.color, <<>>)
                         EXCEPT !.repair = res.repair]
    /\ walk' = NoWalk
    /\ UNCHANGED <<kind, eng>>

\* color = urn.get_random_ball(gen)
GetRandomBall ==
    /\ walk.phase = "idle"
    /\ number_of_balls(kind, urn) > 0
    /\ \E color \in
          IF kind = "alias"
          THEN {AU_get_random_ball_(urn, d).color : d \in AU_draws(urn)}
          ELSE {IF kind = "tree" THEN TU_get_random_ball_with_index(urn, v).color
                ELSE IF kind = "linear" THEN LU_get_random_ball(urn, v)
                ELSE WU_get_random_ball(urn, v) :
                  v \in 0 .. number_of_balls(kind, urn) - 1} :
          last' = Done("get_random_ball", color, <<>>)
    /\ walk' = NoWalk
    /\ UNCHANGED <<kind, urn, ref, eng>>

\* urn.add_urn(other), other holding the balls `o`; for a TreeUrn, `same`
\* selects the overload add_urn(const TreeUrn&)
AddUrn(o, same) ==
    LET S == number_of_colors(kind, urn)
        on == SumTo(o, S)
    IN  /\ walk.phase = "idle"
        /\ kind \in {"tree", "weighted", "alias"}
        /\ same => kind = "tree"
        /\ number_of_balls(kind, urn) + on <= Capacity
        /\ urn' = CASE kind = "tree" /\ same ->
                          TU_add_urn(urn, TU_fill(TreeUrn(S), o, S))
                    [] kind = "tree" /\ ~same -> TU_add_urn_generic(urn, o, on)
                    [] kind = "alias" -> AU_add_urn(urn, o, on)
                    [] OTHER -> WU_add_urn(urn,
                                  [balls_with_color_ |-> o, number_of_balls_ |-> on])
        /\ ref' = [c \in DOMAIN ref |-> ref[c] + o[c]]
        /\ last' = Done(IF same THEN "add_urn_tree" ELSE "add_urn", -1, o)
        /\ walk' = NoWalk
        /\ UNCHANGED <<kind, eng>>

\* urn.clear()
Clear ==
    /\ walk.phase = "idle"
    /\ kind \in {"tree", "weighted"}
    /\ urn' = IF kind = "tree" THEN TU_clear(urn) ELSE WU_clear(urn)
    /\ ref' = [c \in DOMAIN ref |-> 0]
    /\ last' = Done("clear", -1, <<>>)
    /\ walk' = NoWalk
    /\ UNCHANGED <<kind, eng>>

\* AliasUrnSimple::bulk_add_balls(col, n) on a fresh urn, to be followed by
\* bulk_commit (the filling of UrnsTest.FillRemove)
BulkAddBalls(col, n) ==
    /\ kind = "alias"
    /\ walk.phase \in {"idle", "bulk"}
    /\ last.op \in {"new", "bulk_add_balls"}
    /\ number_of_balls(kind, urn) + n <= Capacity
    /\ urn' = AU_bulk_add_balls(urn, col, n)
    /\ ref' = [ref EXCEPT ![col] = @ + n]
    /\ last' = Done("bulk_add_balls", col, <<>>)
    /\ walk' = [NoWalk EXCEPT !.phase = "bulk"]
    /\ UNCHANGED <<kind, eng>>

\* AliasUrnSimple::bulk_commit()
BulkCommit ==
    /\ kind = "alias"
    /\ walk.phase = "bulk"
    /\ urn' = AU_build_alias_table(urn)
    /\ last' = Done("bulk_commit", -1, <<>>)
    /\ walk' = NoWalk
    /\ UNCHANGED <<kind, ref, eng>>

\* the lambda computing num_selected in sample_without_replacement:
\* `unconsidered` is unconsidered_balls before this color is subtracted
\* mutant: the current color is not taken out of the unconsidered balls
NumSelected_NoSubtract(balls_with_color, unconsidered, left_to_sample) ==
    IF balls_with_color = 0 THEN {0}
    ELSE IF unconsidered = 0
    THEN {Min(left_to_sample, balls_with_color)}
    ELSE HypergeometricSupport(balls_with_color, unconsidered, left_to_sample)

NumSelected(balls_with_color, unconsidered, left_to_sample) ==
    IF balls_with_color = 0 THEN {0}
    ELSE IF unconsidered - balls_with_color = 0
    THEN {Min(left_to_sample, balls_with_color)}
    ELSE HypergeometricSupport(balls_with_color,
                               unconsidered - balls_with_color, left_to_sample)

\* sample_without_replacement<false>(k, gen, cb) up to the while loop;
\* removing = TRUE is remove_random_balls<false>
StartSample(k, removing) ==
    /\ walk.phase = "idle"
    /\ kind \in {"tree", "weighted"}
    /\ k <= number_of_balls(kind, urn)
    /\ walk' = IF number_of_balls(kind, urn) = 0 \/ k = 0
               THEN [NoWalk EXCEPT !.at_call = Balls(kind, urn),
                                   !.removing = removing]
               ELSE [phase |-> "walk", k |-> k, removing |-> removing,
                     it_from |-> 0, left_to_sample |-> k,
                     unconsidered_balls |-> number_of_balls(kind, urn),
                     emitted |-> <<>>, at_call |-> Balls(kind, urn)]
    /\ last' = Done(IF removing THEN "remove_random_balls"
                    ELSE "sample_without_replacement", -1, <<>>)
    /\ UNCHANGED <<kind, urn, ref, eng>>

\* one iteration of the while (left_to_sample) loop, callback included
SampleStep ==
    /\ walk.phase = "walk"
    /\ walk.it_from < number_of_colors(kind, urn)
    /\ LET col == walk.it_from
           balls_with_color == number_of_balls_with_color(kind, urn, col)
       IN  \E num_selected \in NumSelected(balls_with_color,
                                  walk.unconsidered_balls, walk.left_to_sample) :
              /\ walk' = [walk EXCEPT
                    !.unconsidered_balls = @ - balls_with_color,
                    !.emitted = IF num_selected > 0
                                THEN Append(@, <<col, num_selected>>) ELSE @,
                    !.left_to_sample = @ - num_selected,
                    !.it_from = @ + 1,
                    !.phase = IF walk.left_to_sample - num_selected = 0
                              THEN "idle" ELSE "walk"]
              /\ IF walk.removing /\ num_selected > 0
                 THEN /\ urn' = IF kind = "tree"
                                THEN TU_remove_balls(urn, col, num_selected)
                                ELSE WU_remove_balls(urn, col, num_selected)
                      /\ ref' = [ref EXCEPT ![col] = @ - num_selected]
                 ELSE UNCHANGED <<urn, ref>>
    /\ UNCHANGED <<kind, last, eng>>

UrnNext ==
    \/ \E col \in Colors, n \in 0 .. MaxAdd : AddBalls(col, n)
    \/ \E col \in Colors, n \in 1 .. MaxBalls : RemoveBalls(col, n)
    \/ \E col \in Colors, n \in 0 .. MaxAdd : SetBalls(col, n)
    \/ RemoveRandomBall
    \/ GetRandomBall
    \/ \E o \in Vectors(number_of_colors(kind, urn), MaxAdd), same \in BOOLEAN :
          AddUrn(o, same)
    \/ Clear
    \/ \E col \in Colors, n \in 0 .. MaxAdd : BulkAddBalls(col, n)
    \/ BulkCommit
    \/ \E k \in 0 .. MaxBalls, removing \in BOOLEAN : StartSample(k, removing)
    \/ SampleStep

SpecUrn == UrnInit /\ [][UrnNext]_vars

\* an AliasUrnSimple filled by bulk_add_balls with any counts, then committed
\* (UrnsTest.FillRemove) and drawn from
AliasInit ==
    /\ kind = "alias"
    /\ \E S \in 2 .. MaxRebuildColors :
          \E v \in Vectors(S, MaxRebuildBalls) :
             /\ urn = [AliasUrnSimple(S) EXCEPT
                          !.balls_with_color_ = v,
                          !.number_of_balls_ = SumTo(v, S)]
             /\ ref = v
    /\ last = [op |-> "bulk_add_balls", color |-> -1, pre |-> <<>>, pre_n |-> 0,
               other |-> <<>>, repair |-> "none"]
    /\ walk = [NoWalk EXCEPT !.phase = "bulk"]
    /\ eng = <<>>

AliasNext ==
    \/ BulkCommit
    \/ RemoveRandomBall

SpecAlias == AliasInit /\ [][AliasNext]_vars

\* no slot of the alias table has a negative weight
AU_slots_hold(u) ==
    \A r \in DOMAIN u.alias_table_ :
        u.alias_table_[r].w0 >= 0 /\ u.alias_table_[r].w1 >= 0

\* add_balls(col, n) of an AliasUrnSimple with n of either sign; the call is
\* made when assert(balls_with_color_[col] >= -n) holds
SignedAddBalls(col, n) ==
    /\ kind = "alias"
    /\ n # 0
    /\ number_of_balls_with_color(kind, urn, col) >= 0 - n
    /\ AddBalls(col, n)

\* an AliasUrnSimple filled by bulk_add_balls, committed and then operated
\* by add_balls of either sign and remove_random_ball as long as its table
\* has no negative weight
SignedInit ==
    /\ kind = "alias"
    /\ \E S \in 2 .. MaxSignedColors :
          \E v \in Vectors(S, MaxSignedBalls) :
             /\ urn = [AliasUrnSimple(S) EXCEPT
                          !.balls_with_color_ = v,
                          !.number_of_balls_ = SumTo(v, S)]
             /\ ref = v
    /\ last = [op |-> "bulk_add_balls", color |-> -1, pre |-> <<>>, pre_n |-> 0,
               other |-> <<>>, repair |-> "none"]
    /\ walk = [NoWalk EXCEPT !.phase = "bulk"]
    /\ eng = <<>>

SignedCommit == AU_slots_hold(urn) /\ BulkCommit

SignedRemoveRandomBall == AU_slots_hold(urn) /\ RemoveRandomBall

SignedAdd ==
    /\ AU_slots_hold(urn)
    /\ \E col \in Colors, n \in (0 - MaxAdd) .. MaxAdd : SignedAddBalls(col, n)

SignedNext ==
    \/ SignedCommit
    \/ SignedRemoveRandomBall
    \/ SignedAdd

SpecSigned == SignedInit /\ [][SignedNext]_vars

\* =============================================================== protocols
\* the protocols of src/include/protocols, and two randomised protocols (the
\* engine's callback interface) whose outputs the environment chooses
IncrementOne == {"inc_oneway", "inc_first", "inc_second", "inc_both"}
DetProtocols == IncrementOne \cup {"leader", "majority"}
RandProtocols == {"rand_oneway", "rand_twoway"}

is_deterministic(p) == p \in DetProtocols
is_one_way(p) == p \in {"inc_oneway", "leader", "rand_oneway"}

kIncreaseFirst(p) == IF p \in {"inc_oneway", "inc_first", "inc_both"} THEN 1 ELSE 0
kIncreaseSecond(p) == IF p \in {"inc_second", "inc_both"} THEN 1 ELSE 0
kIncreasePerInteraction(p) == kIncreaseFirst(p) + kIncreaseSecond(p)

\* LeaderElectionProtocol::operator(): Follower = 0, Leader = 1
LeaderElection(first, second) == IF first = 1 /\ second = 1 THEN 0 ELSE first

\* MajorityProtocol::operator() on encode(opinion, strong) = 2 * strong + opinion
Majority(fst, snd) ==
    LET fo == fst % 2
        fs == fst \div 2
        so == snd % 2
        ss == snd \div 2
    IN  IF fs = ss THEN <<fo, so>>
        ELSE IF fs = 1 THEN <<2 + fo, fo>>
        ELSE <<so, 2 + so>>

\* Protocols::transition: the pairs one interaction can produce; a randomised
\* protocol hands one state (one-way) or two states to the callback
transition(p, S, first, second) ==
    CASE p \in IncrementOne ->
            {<<first + kIncreaseFirst(p), second + kIncreaseSecond(p)>>}
      [] p = "leader" -> {<<LeaderElection(first, second), second>>}
      [] p = "majority" -> {Majority(first, second)}
      [] p = "rand_oneway" -> {<<a, second>> : a \in 0 .. S - 1}
      [] OTHER -> (0 .. S - 1) \X (0 .. S - 1)

\* the result of a deterministic protocol
det_transition(p, S, first, second) ==
    CHOOSE t \in transition(p, S, first, second) : TRUE

\* Protocols::transactions_without_change: skip_trans[first]
skip_trans(p, S, first) ==
    {second \in 0 .. S - 1 :
        LET to == det_transition(p, S, first, second)
        IN  to = <<first, second>> \/ to = <<second, first>>}

RECURSIVE SumOver(_, _)
\* sum of f over the elements of the finite set T
SumOver(f, T) ==
    IF T = {} THEN 0
    ELSE LET x == CHOOSE y \in T : TRUE IN f[x] + SumOver(f, T \ {x})

\* the constructor's use_skip_heuristic_ = (skips > number_of_colors)
use_skip_heuristic(p, S) ==
    /\ is_deterministic(p)
    /\ ~is_one_way(p)
    /\ SumOver([first \in 0 .. S - 1 |-> Cardinality(skip_trans(p, S, first))],
               0 .. S - 1) > S

RECURSIVE SortedSeq(_)
\* the elements of a finite set of numbers in increasing order
SortedSeq(T) ==
    IF T = {} THEN <<>>
    ELSE LET m == CHOOSE x \in T : \A y \in T : x <= y
         IN  <<m>> \o SortedSeq(T \ {m})

\* Protocols::parition_oneway_transactions: one row of the mapping, a
\* sequence of (seconds, new first state) ordered by the new first state
one_way_partitions(p, S, first) ==
    LET to(second) == det_transition(p, S, first, second)[1]
        targets == SortedSeq({to(second) : second \in 0 .. S - 1})
    IN  [i \in 1 .. Len(targets) |->
            <<{second \in 0 .. S - 1 : to(second) = targets[i]}, targets[i]>>]

\* ================================================== EpochLengthController
kMeasureNumberOfEpochs == 10

\* static_cast<size_t>(std::pow(n, num / den)) in double arithmetic: the doubles
\* 0.4 and 0.8 lie above 2/5 and 4/5, the double 0.6 lies below 3/5, so for
\* n > 1 an exact root under 0.6 comes out just short of the integer
FloorPow(n, num, den) ==
    LET k == CHOOSE j \in 0 .. n : j ^ den <= n ^ num /\ (j + 1) ^ den > n ^ num
    IN  IF num = 3 /\ den = 5 /\ n > 1 /\ k ^ den = n ^ num THEN k - 1 ELSE k

\* update_value: current_best_ * (1.0 + (state - 1) * 0.1), clamped
update_value(c, state) ==
    LET value == (c.current_best_ * (10 + (state - 1))) \div 10
    IN  IF value < c.min_ THEN c.min_
        ELSE IF value > c.max_ THEN c.max_ ELSE value

\* the constructor from n; measured_times_ holds (progress, seconds) pairs, and
\* phase_time is measure_start_time_ - phase_start_time_ in milliseconds
EpochLengthController(n) ==
    LET max == Min(FloorPow(n, 4, 5) + 1, n)
    IN  [measure_number_of_epochs_ |-> kMeasureNumberOfEpochs,
         min_ |-> FloorPow(n, 2, 5) + 1,
         max_ |-> max,
         current_best_ |-> Min(FloorPow(n, 3, 5) + 1, max),
         current_measurement_ |-> 0,
         state_ |-> 0,
         measured_times_ |-> <<<<0, 1>>, <<0, 1>>, <<0, 1>>>>,
         measure_epochs_ |-> 0,
         measure_num_interactions_start_ |-> 0,
         phase_time |-> 0]

ELC_start(c) ==
    [c EXCEPT !.state_ = 0, !.phase_time = 0,
              !.current_measurement_ = update_value(c, 0)]

\* the first smallest rate instead of the first largest
best_idx_Lowest(m) ==
    CHOOSE i \in 1 .. 3 :
        /\ \A j \in 1 .. 3 : m[j][1] * m[i][2] >= m[i][1] * m[j][2]
        /\ \A j \in 1 .. i - 1 : m[j][1] * m[i][2] > m[i][1] * m[j][2]

\* std::max_element over the three measured rates: the first largest one
best_idx(m) ==
    CHOOSE i \in 1 .. 3 :
        /\ \A j \in 1 .. 3 : m[j][1] * m[i][2] <= m[i][1] * m[j][2]
        /\ \A j \in 1 .. i - 1 : m[j][1] * m[i][2] < m[i][1] * m[j][2]

\* update(num_interactions); time_elapsed is what the steady clock shows to
\* have passed since measure_start_time_, in milliseconds
ELC_update(c, num_interactions, time_elapsed) ==
    IF c.measure_epochs_ < c.measure_number_of_epochs_
    THEN [c EXCEPT !.measure_epochs_ = @ + 1]
    ELSE LET progress == num_interactions - c.measure_num_interactions_start_
             measured == [c EXCEPT
                 !.measure_epochs_ = 0,
                 !.measured_times_[c.state_ + 1] = <<progress, time_elapsed>>,
                 !.measure_num_interactions_start_ = num_interactions,
                 !.phase_time = @ + time_elapsed,
                 !.state_ = @ + 1]
             best == [measured EXCEPT
                 !.current_best_ =
                     update_value(measured, best_idx(measured.measured_times_) - 1),
                 !.state_ = 0,
                 !.measure_number_of_epochs_ =
                     Max(10,
                         (@ * (4 * measured.phase_time + 60))
                             \div (5 * measured.phase_time)),
                 !.phase_time = 0]
             next == IF measured.state_ > 2 THEN best ELSE measured
         IN  [next EXCEPT !.current_measurement_ = update_value(next, next.state_)]

\* ================================================== CollisionDisitribution
kNumStages == 16

\* stage_factor_(max_g / kNumStages): the integer quotient, kept as a double
CD_stage_factor(max_g) == max_g \div kNumStages

\* set_red: the values current_stage_ = g / stage_factor_ can take. With
\* stage_factor_ = 0 the quotient is NaN or infinite and its conversion to
\* size_t is undefined: any index, kNumStages standing for those out of range
CD_set_red(stage_factor_, g) ==
    IF stage_factor_ = 0 THEN 0 .. kNumStages ELSE {g \div stage_factor_}

\* ===================================================== AsyncBatchSimulator
\* the values a draw from lo .. hi can take: any of them, or the one the
\* seeded generator's state selects
Choose(e, lo, hi) ==
    IF e.seeded THEN {lo + (e.prng % (hi - lo + 1))} ELSE lo .. hi

\* the generator after one draw (a linear congruential generator when seeded)
Consume(e) ==
    IF e.seeded THEN [e EXCEPT !.prng = (75 * @ + 74) % 65537] ELSE e

\* the locals of one pass through sample_run_lengths_and_plant_collisions and
\* process_delayed_agents, at rest
Rest(e) ==
    [e EXCEPT !.round_length = 0, !.num_colliding_agents = 0,
              !.has_collision_on_first = FALSE, !.has_collision_on_second = FALSE,
              !.who = 0, !.first = 0, !.second = 0, !.task = 0, !.first_state = 0,
              !.left_to_sample = 0, !.unconsidered_balls = 0, !.it = 0]

\* the simulator after construction from the urn `initial`; monitor_calls, verdict,
\* updates, targets, bulk (the last call of a randomised protocol for several
\* interactions), planted (the last run of the sampling phase: the
\* colliding agents before and after it, its run length, the runs of this
\* epoch and whether all their run lengths were positive) and phase (the
\* counters at the start of the epoch, the delayed pairs resolved while
\* sampling, num_interactions_ and d at the start of the bulk phase) and pick
\* (the last pick of a walk: the balls of the color or group, the balls not
\* yet considered behind it, the picks left, the number picked and whether
\* the hypergeometric sampler was called) record the run for the properties
AsyncBatchSimulator(initial, p, seeded, seed) ==
    LET S == WU_number_of_colors(initial)
    IN  [sim |-> "batch", protocol |-> p, seeded |-> seeded, prng |-> seed,
         n0 |-> initial.number_of_balls_,
         agents_ |-> WU_add_urn(WeightedUrn(S), initial),
         updated_agents_ |-> WeightedUrn(S),
         num_delayed_agents_ |-> 0,
         target_epoch_length_ |-> EpochLengthController(initial.number_of_balls_),
         use_skip_heuristic_ |-> use_skip_heuristic(p, S),
         first_agents_ |-> <<>>,
         num_interactions_ |-> 0, num_runs_ |-> 0, num_epochs_ |-> 0,
         pc |-> "start", num_agents |-> 0,
         round_length |-> 0, num_colliding_agents |-> 0,
         has_collision_on_first |-> FALSE, has_collision_on_second |-> FALSE,
         who |-> 0, first |-> 0, second |-> 0, task |-> 0, first_state |-> 0,
         left_to_sample |-> 0, unconsidered_balls |-> 0, it |-> 0,
         monitor_calls |-> 0, verdict |-> TRUE, updates |-> 0, targets |-> <<>>,
         bulk |-> [num |-> 0, assigned |-> 0],
         planted |-> [g |-> 0, L |-> 0, after |-> 0, runs |-> 0, positive |-> TRUE],
         phase |-> [epoch0 |-> 0, runs0 |-> 0, resolved |-> 0, bulk0 |-> 0,
                    delayed |-> 0],
         pick |-> [group |-> 0, rest |-> 0, k |-> 0, got |-> 0, sampled |-> FALSE]]

num_states(e) == WU_number_of_colors(e.agents_)

\* process_delayed_agents_partitioned is taken for deterministic one-way
partitioned(e) == is_deterministic(e.protocol) /\ is_one_way(e.protocol)

\* the end of process_delayed_agents(_partitioned)
BulkEnd(e) ==
    [Rest(e) EXCEPT
        !.first_agents_ = <<>>,
        !.num_interactions_ =
            IF partitioned(e) THEN @ + e.num_delayed_agents_ \div 2 ELSE @,
        !.pc = "commit"]

\* the head of the loop over first_agents_
TaskLoop(e) ==
    IF e.task > Len(e.first_agents_) THEN BulkEnd(e) ELSE [e EXCEPT !.pc = "task"]

\* entry of process_delayed_agents up to the first pick of remove_random_balls
BulkBegin(e) ==
    LET b == [Rest(e) EXCEPT
                 !.left_to_sample = e.num_delayed_agents_ \div 2,
                 !.unconsidered_balls = e.agents_.number_of_balls_,
                 !.first_agents_ = <<>>,
                 !.phase = [@ EXCEPT !.bulk0 = e.num_interactions_,
                                     !.delayed = e.num_delayed_agents_],
                 !.pc = "remove"]
    IN  IF b.agents_.number_of_balls_ = 0 \/ b.left_to_sample = 0
        THEN TaskLoop([b EXCEPT !.task = 1])
        ELSE b

\* the loop condition of sample_run_lengths_and_plant_collisions
LoopHead(e) ==
    IF e.num_delayed_agents_ + e.updated_agents_.number_of_balls_
          < e.target_epoch_length_.current_measurement_
    THEN [Rest(e) EXCEPT !.pc = "length"]
    ELSE BulkBegin(e)

\* the start of the do-body of run, up to the first run length
EpochBegin(e) ==
    LoopHead([e EXCEPT
        !.num_agents = e.agents_.number_of_balls_ + e.updated_agents_.number_of_balls_,
        !.targets = Append(@, e.target_epoch_length_.current_measurement_),
        !.planted = [g |-> 0, L |-> 0, after |-> 0, runs |-> 0, positive |-> TRUE],
        !.phase = [epoch0 |-> e.num_interactions_, runs0 |-> e.num_runs_,
                   resolved |-> 0, bulk0 |-> 0, delayed |-> 0],
        !.pick = [group |-> 0, rest |-> 0, k |-> 0, got |-> 0, sampled |-> FALSE]])

\* run up to the first epoch: target_epoch_length_.start()
run_start(e) ==
    EpochBegin([e EXCEPT !.target_epoch_length_ = ELC_start(@)])

\* mutant: the whole run length is added to the delayed agents
sample_run_length_Whole(e) ==
    LET g == e.num_delayed_agents_ + e.updated_agents_.number_of_balls_
    IN  {IF g = 0 /\ L < 2 THEN Consume(e)
         ELSE [Consume(e) EXCEPT
                  !.round_length = L,
                  !.num_delayed_agents_ = @ + L,
                  !.num_colliding_agents = g + L,
                  !.has_collision_on_first = (L % 2 = 0),
                  !.pc = "second"]
         : L \in Choose(e, 0, e.num_agents - g)}

\* set_red and one draw of the run length; a draw below 2 is repeated when no
\* agent collides yet
sample_run_length(e) ==
    LET g == e.num_delayed_agents_ + e.updated_agents_.number_of_balls_
    IN  {IF g = 0 /\ L < 2 THEN Consume(e)
         ELSE [Consume(e) EXCEPT
                  !.round_length = L,
                  !.num_delayed_agents_ = @ + 2 * (L \div 2),
                  !.num_colliding_agents = g + 2 * (L \div 2),
                  !.has_collision_on_first = (L % 2 = 0),
                  !.pc = "second"]
         : L \in Choose(e, 0, e.num_agents - g)}

\* mutant: the draw comes from a generator the seed does not reach
with_probability_Unseeded(e, good, total) ==
    {<<Consume(e), x <= good>> : x \in 1 .. total}

\* with_probability_(good, total)
with_probability_(e, good, total) ==
    {<<Consume(e), x <= good>> : x \in Choose(e, 1, total)}

\* has_collision_on_second, decided before the first agent is sampled
collision_on_second(e) ==
    IF ~e.has_collision_on_first
    THEN {[e EXCEPT !.has_collision_on_second = TRUE, !.who = 1, !.pc = "agent"]}
    ELSE {[q[1] EXCEPT !.has_collision_on_second = q[2], !.who = 1, !.pc = "agent"]
          : q \in with_probability_(e, e.num_colliding_agents, e.num_agents)}

\* the sampled agent becomes first or second
GotAgent(e, color) ==
    IF e.who = 1 THEN [e EXCEPT !.first = color, !.who = 2, !.pc = "agent"]
    ELSE [e EXCEPT !.second = color, !.pc = "interact"]

\* sample_untouched_agent: (simulator, color)
sample_untouched_agent(e) ==
    {LET r == WU_remove_random_ball(e.agents_, v)
     IN  <<[Consume(e) EXCEPT !.agents_ = r.urn], r.color>>
     : v \in Choose(e, 0, e.agents_.number_of_balls_ - 1)}

\* sample_updated_agent: (simulator, color)
sample_updated_agent(e) ==
    {LET r == WU_remove_random_ball(e.updated_agents_, v)
     IN  <<[Consume(e) EXCEPT !.updated_agents_ = r.urn], r.color>>
     : v \in Choose(e, 0, e.updated_agents_.number_of_balls_ - 1)}

\* perform_interaction: (simulator, new states)
perform_interaction(e, first, second) ==
    {<<[e EXCEPT !.num_interactions_ = @ + 1], t>>
     : t \in transition(e.protocol, num_states(e), first, second)}

\* the sample_agent lambda, without the body of sample_delayed_agent; a ball
\* removed from an empty updated urn breaks remove_random_ball's precondition
sample_agent(e) ==
    IF ~(IF e.who = 1 THEN e.has_collision_on_first ELSE e.has_collision_on_second)
    THEN {GotAgent(q[1], q[2]) : q \in sample_untouched_agent(e)}
    ELSE UNION {IF w[2] THEN {[w[1] EXCEPT !.pc = "delayed"]}
                ELSE IF w[1].updated_agents_.number_of_balls_ = 0
                THEN {[w[1] EXCEPT !.pc = "undefined"]}
                ELSE {GotAgent(q[1], q[2]) : q \in sample_updated_agent(w[1])}
                : w \in with_probability_(e, e.num_delayed_agents_,
                                          e.num_colliding_agents)}

\* mutant: the partner that is not returned is not stored
sample_delayed_agent_DropPartner(e) ==
    UNION {UNION {UNION {
        {LET give == IF coin = 1 THEN t[2][2] ELSE t[2][1]
         IN  GotAgent(Consume(t[1]), give)
         : coin \in Choose(t[1], 0, 1)}
        : t \in perform_interaction(
                    [b[1] EXCEPT !.num_delayed_agents_ = @ - 2,
                                 !.phase = [@ EXCEPT !.resolved = @ + 1]],
                    a[2], b[2])}
        : b \in sample_untouched_agent(a[1])}
        : a \in sample_untouched_agent(e)}

\* mutant: the two agents stay counted as delayed
sample_delayed_agent_KeepDelayed(e) ==
    UNION {UNION {UNION {
        {LET keep == IF coin = 1 THEN t[2][1] ELSE t[2][2]
             give == IF coin = 1 THEN t[2][2] ELSE t[2][1]
         IN  GotAgent([Consume(t[1]) EXCEPT
                          !.updated_agents_ = WU_add_balls(@, keep, 1)], give)
         : coin \in Choose(t[1], 0, 1)}
        : t \in perform_interaction(
                    [b[1] EXCEPT !.phase = [@ EXCEPT !.resolved = @ + 1]],
                    a[2], b[2])}
        : b \in sample_untouched_agent(a[1])}
        : a \in sample_untouched_agent(e)}

\* sample_delayed_agent: two untouched agents interact, a fair coin picks the
\* one that is stored in the updated urn, the other is returned
sample_delayed_agent(e) ==
    UNION {UNION {UNION {
        {LET keep == IF coin = 1 THEN t[2][1] ELSE t[2][2]
             give == IF coin = 1 THEN t[2][2] ELSE t[2][1]
         IN  GotAgent([Consume(t[1]) EXCEPT
                          !.updated_agents_ = WU_add_balls(@, keep, 1)], give)
         : coin \in Choose(t[1], 0, 1)}
        : t \in perform_interaction(
                    [b[1] EXCEPT !.num_delayed_agents_ = @ - 2,
                                 !.phase = [@ EXCEPT !.resolved = @ + 1]],
                    a[2], b[2])}
        : b \in sample_untouched_agent(a[1])}
        : a \in sample_untouched_agent(e)}

\* the record of a run that ends in the simulator s
Planted(e, s) ==
    [s EXCEPT
        !.planted = [g |-> e.num_colliding_agents - 2 * (e.round_length \div 2),
                     L |-> e.round_length,
                     after |-> s.num_delayed_agents_
                               + s.updated_agents_.number_of_balls_,
                     runs |-> @.runs + 1,
                     positive |-> @.positive /\ e.round_length >= 1]]

\* mutant: only the first of the two new states is stored
plant_collision_DropSecond(e) ==
    {LoopHead(Planted(e, [t[1] EXCEPT
        !.updated_agents_ = WU_add_balls(@, t[2][1], 1),
        !.num_runs_ = @ + 1]))
     : t \in perform_interaction(e, e.first, e.second)}

\* the end of one pass of the loop: the interaction of first and second
plant_collision(e) ==
    {LoopHead(Planted(e, [t[1] EXCEPT
        !.updated_agents_ = WU_add_balls(WU_add_balls(@, t[2][1], 1), t[2][2], 1),
        !.num_runs_ = @ + 1]))
     : t \in perform_interaction(e, e.first, e.second)}

\* a hypergeometric pick of the walks: the num_selected lambda with its
\* draw; (simulator, num_selected)
num_selected(e, balls_with_color, unconsidered, left_to_sample) ==
    LET picks == NumSelected(balls_with_color, unconsidered, left_to_sample)
        lo == CHOOSE x \in picks : \A y \in picks : x <= y
        Picked(s, x, sampled) ==
            [s EXCEPT !.pick = [group |-> balls_with_color,
                                rest |-> unconsidered - balls_with_color,
                                k |-> left_to_sample, got |-> x,
                                sampled |-> sampled]]
    IN  IF balls_with_color = 0 \/ unconsidered - balls_with_color = 0
        THEN {<<Picked(e, x, FALSE), x>> : x \in picks}
        ELSE {<<Picked(Consume(e), x, TRUE), x>>
              : x \in Choose(e, lo, lo + Cardinality(picks) - 1)}

\* one pass of the loop of agents_.remove_random_balls<false>(d / 2) with its
\* callback, which fills first_agents_
remove_random_balls_step(e) ==
    IF e.it >= num_states(e) THEN {[e EXCEPT !.pc = "undefined"]}
    ELSE LET balls_with_color == e.agents_.balls_with_color_[e.it]
         IN  {LET s == [q[1] EXCEPT
                         !.unconsidered_balls = @ - balls_with_color,
                         !.agents_ = IF q[2] > 0
                                     THEN WU_remove_balls(@, e.it, q[2]) ELSE @,
                         !.first_agents_ = IF q[2] > 0
                                           THEN Append(@, <<e.it, q[2]>>) ELSE @,
                         !.left_to_sample = @ - q[2],
                         !.it = @ + 1]
              IN  IF s.left_to_sample = 0
                  THEN TaskLoop([s EXCEPT !.task = 1, !.it = 0,
                                          !.unconsidered_balls = 0])
                  ELSE s
              : q \in num_selected(e, balls_with_color, e.unconsidered_balls,
                                   e.left_to_sample)}

\* the next task of the loop over first_agents_
NextTask(e) ==
    TaskLoop([e EXCEPT !.task = @ + 1, !.first_state = 0, !.left_to_sample = 0,
                       !.unconsidered_balls = 0, !.it = 0])

\* the head of a task: the single-partition shortcut of the partitioned
\* variant, or the pick of the skipped interactions
task_start(e) ==
    LET first_state == e.first_agents_[e.task][1]
        left_to_sample == e.first_agents_[e.task][2]
        unconsidered_balls == e.agents_.number_of_balls_
        S == num_states(e)
        t == [e EXCEPT !.first_state = first_state,
                       !.left_to_sample = left_to_sample,
                       !.unconsidered_balls = unconsidered_balls,
                       !.pc = "walk"]
    IN  IF partitioned(e)
        THEN LET parts == one_way_partitions(e.protocol, S, first_state)
             IN  IF left_to_sample = 0 THEN {NextTask(e)}
                 ELSE IF Len(parts) = 1
                 THEN {NextTask([e EXCEPT !.updated_agents_ =
                           WU_add_balls(@, parts[1][2], left_to_sample)])}
                 ELSE {[t EXCEPT !.it = 1]}
        ELSE LET number_of_skipable_balls ==
                     IF ~e.use_skip_heuristic_ THEN 0
                     ELSE SumOver(e.agents_.balls_with_color_,
                                  skip_trans(e.protocol, S, first_state))
                 rest == unconsidered_balls - number_of_skipable_balls
                 support == HypergeometricSupport(number_of_skipable_balls, rest,
                                                  left_to_sample)
             IN  IF number_of_skipable_balls = 0 THEN {t}
                 ELSE IF support = {} THEN {[e EXCEPT !.pc = "undefined"]}
                 ELSE {LET s == [Consume(t) EXCEPT
                                   !.unconsidered_balls = rest,
                                   !.left_to_sample = @ - skipped_trans,
                                   !.updated_agents_ =
                                       WU_add_balls(@, first_state, skipped_trans),
                                   !.pick = [group |-> number_of_skipable_balls,
                                             rest |-> rest, k |-> left_to_sample,
                                             got |-> skipped_trans,
                                             sampled |-> TRUE]]
                       IN  IF s.left_to_sample = 0 THEN NextTask(s) ELSE s
                       : skipped_trans \in
                           Choose(e, Max(0, left_to_sample - rest),
                                  Min(number_of_skipable_balls, left_to_sample))}

\* the states a randomised protocol hands to assign_callback in one call for
\* num interactions, as counts per state: the protocol is free code, so any
\* number of them, up to one more than two per interaction
assigned(p, S, num) == Vectors(S, 2 * num + 1)

\* mutant: the bulk interactions are not counted
perform_interactions_NoCount(e, first, second, num) ==
    IF is_deterministic(e.protocol)
    THEN LET new_states == det_transition(e.protocol, num_states(e), first, second)
         IN  {[e EXCEPT
                 !.updated_agents_ =
                     WU_add_balls(WU_add_balls(@, new_states[1], num),
                                  new_states[2], num)]}
    ELSE {LET target == WU_add_urn(e.updated_agents_,
                            [balls_with_color_ |-> v,
                             number_of_balls_ |-> SumTo(v, num_states(e))])
          IN  [e EXCEPT
                 !.updated_agents_ = target,
                 !.bulk = [num |-> num, assigned |-> SumTo(v, num_states(e))],
                 !.pc = IF target.number_of_balls_
                            = e.updated_agents_.number_of_balls_ + 2 * num
                        THEN @ ELSE "died"]
          : v \in assigned(e.protocol, num_states(e), num)}

\* perform_interactions(first, second, num, updated_agents_)
perform_interactions(e, first, second, num) ==
    IF is_deterministic(e.protocol)
    THEN LET new_states == det_transition(e.protocol, num_states(e), first, second)
         IN  {[e EXCEPT
                 !.updated_agents_ =
                     WU_add_balls(WU_add_balls(@, new_states[1], num),
                                  new_states[2], num),
                 !.num_interactions_ = @ + num]}
    ELSE {LET target == WU_add_urn(e.updated_agents_,
                            [balls_with_color_ |-> v,
                             number_of_balls_ |-> SumTo(v, num_states(e))])
          IN  [e EXCEPT
                 !.updated_agents_ = target,
                 !.num_interactions_ = @ + num,
                 !.bulk = [num |-> num, assigned |-> SumTo(v, num_states(e))],
                 !.pc = IF target.number_of_balls_
                            = e.updated_agents_.number_of_balls_ + 2 * num
                        THEN @ ELSE "died"]
          : v \in assigned(e.protocol, num_states(e), num)}

\* one pass of the loop over the second states (over the partitions in the
\* partitioned variant)
walk_step(e) ==
    LET S == num_states(e)
        after(s) == IF s.pc = "died" THEN s
                    ELSE IF s.left_to_sample = 0 THEN NextTask(s) ELSE s
    IN  IF partitioned(e)
        THEN LET parts == one_way_partitions(e.protocol, S, e.first_state)
                 balls_in_second_state ==
                     SumOver(e.agents_.balls_with_color_, parts[e.it][1])
             IN  {LET s == [q[1] EXCEPT
                              !.unconsidered_balls = @ - balls_in_second_state,
                              !.updated_agents_ =
                                  WU_add_balls(@, parts[e.it][2], q[2]),
                              !.left_to_sample = @ - q[2],
                              !.it = @ + 1]
                  IN  IF s.left_to_sample = 0 \/ s.it > Len(parts)
                      THEN NextTask(s) ELSE s
                  : q \in num_selected(e, balls_in_second_state,
                                       e.unconsidered_balls, e.left_to_sample)}
        ELSE IF e.it >= S THEN {[e EXCEPT !.pc = "undefined"]}
        ELSE IF e.use_skip_heuristic_
                /\ e.it \in skip_trans(e.protocol, S, e.first_state)
        THEN {[e EXCEPT !.it = @ + 1]}
        ELSE LET balls_with_color == e.agents_.balls_with_color_[e.it]
             IN  UNION {
                   LET s == [q[1] EXCEPT
                               !.unconsidered_balls = @ - balls_with_color,
                               !.agents_ = IF q[2] > 0
                                           THEN WU_remove_balls(@, e.it, q[2])
                                           ELSE @,
                               !.left_to_sample = @ - q[2],
                               !.it = @ + 1]
                   IN  IF q[2] > 0
                       THEN {after(x) : x \in
                               perform_interactions(s, e.first_state, e.it, q[2])}
                       ELSE {after(s)}
                   : q \in num_selected(e, balls_with_color,
                                        e.unconsidered_balls, e.left_to_sample)}

\* mutant: the updated urn is merged but not cleared
commit_NoClear(e, time_elapsed) ==
    [e EXCEPT
        !.agents_ = WU_add_urn(@, e.updated_agents_),
        !.num_delayed_agents_ = 0,
        !.num_epochs_ = @ + 1,
        !.target_epoch_length_ = ELC_update(@, e.num_interactions_, time_elapsed),
        !.updates = @ + 1,
        !.pc = "monitor"]

\* the end of the do-body of run: the merge, the reset and the notification
\* of the controller, which reads the steady clock
commit(e, time_elapsed) ==
    [e EXCEPT
        !.agents_ = WU_add_urn(@, e.updated_agents_),
        !.updated_agents_ = WU_clear(@),
        !.num_delayed_agents_ = 0,
        !.num_epochs_ = @ + 1,
        !.target_epoch_length_ = ELC_update(@, e.num_interactions_, time_elapsed),
        !.updates = @ + 1,
        !.pc = "monitor"]

\* mutant: the answer of the monitor is ignored
monitor_Ignored(e, verdict) ==
    EpochBegin([e EXCEPT !.monitor_calls = @ + 1, !.verdict = verdict])

\* while (monitor(*this)): the call and the next epoch or the return of run
monitor(e, verdict) ==
    LET m == [e EXCEPT !.monitor_calls = @ + 1, !.verdict = verdict]
    IN  IF verdict THEN EpochBegin(m) ELSE [m EXCEPT !.pc = "done"]

\* ================================================== reference simulators
\* the urn operations AsyncDistributionSimulator uses, for its urn type
U_remove_random_ball(k, u, v) ==
    IF k = "tree"
    THEN LET r == TU_remove_random_ball_with_index(u, v)
         IN  [urn |-> r.urn, color |-> r.color]
    ELSE LU_remove_random_ball(u, v)

U_get_random_ball(k, u, v) ==
    IF k = "tree" THEN TU_get_random_ball_with_index(u, v).color
    ELSE LU_get_random_ball(u, v)

U_add_balls(k, u, col, n) ==
    IF k = "tree" THEN TU_add_balls(u, col, n) ELSE LU_add_balls(u, col, n)

\* static_cast<size_t>(std::pow(n, 0.5)) + 1
SqrtPlusOne(n) == FloorPow(n, 1, 2) + 1

\* AsyncDistributionSimulator after construction with n agents in state 0
AsyncDistributionSimulator(k, S, n, p, seed) ==
    [sim |-> "distr", urn_type |-> k, protocol |-> p, seeded |-> TRUE,
     prng |-> seed, n0 |-> n,
     agents_ |-> U_add_balls(k, NewUrn(k, S), 0, n),
     epoch_length_ |-> SqrtPlusOne(n),
     num_interactions_ |-> 0, num_runs_ |-> 0, num_epochs_ |-> 0,
     pc |-> "loop", intraepoch |-> 0, monitor_calls |-> 0, verdict |-> TRUE]

\* num_interactions_ += epoch_length_; ++num_epochs_ once the loops are done
RefCommit(e, done) ==
    IF done
    THEN [e EXCEPT !.num_interactions_ = @ + e.epoch_length_,
                   !.num_epochs_ = @ + 1, !.intraepoch = 0, !.pc = "monitor"]
    ELSE e

\* perform_single_interaction, and the end of the epoch after the last one
distr_step(e) ==
    LET k == e.urn_type
        one == is_one_way(e.protocol)
    IN  UNION {UNION {
          LET u1 == U_remove_random_ball(k, e.agents_, v1)
              u2 == IF one
                    THEN [urn |-> u1.urn,
                          color |-> U_get_random_ball(k, u1.urn, v2)]
                    ELSE U_remove_random_ball(k, u1.urn, v2)
          IN  {LET u3 == U_add_balls(k, u2.urn, t[1], 1)
                   u4 == IF one THEN u3 ELSE U_add_balls(k, u3, t[2], 1)
               IN  RefCommit([Consume(Consume(e)) EXCEPT
                                 !.agents_ = u4, !.intraepoch = @ + 1],
                             e.intraepoch + 1 >= e.epoch_length_)
               : t \in transition(e.protocol, number_of_colors(k, e.agents_),
                                  u1.color, u2.color)}
          : v2 \in Choose(Consume(e), 0, number_of_balls(k, e.agents_) - 2)}
          : v1 \in Choose(e, 0, number_of_balls(k, e.agents_) - 1)}

\* the first loop an epoch of AsyncPopulationSimulator::run enters
PopEpoch(e) ==
    [e EXCEPT !.intraepoch = 0,
              !.pc = IF e.kPrefetchInteractions = 0 THEN "single" ELSE "prefetch"]

\* AsyncPopulationSimulator<k> after construction with n agents in state 0
AsyncPopulationSimulator(k, S, n, p, seed) ==
    PopEpoch(
    [sim |-> "pop", kPrefetchInteractions |-> k, protocol |-> p, seeded |-> TRUE,
     prng |-> seed, n0 |-> n, num_states_ |-> S,
     population_ |-> [i \in 0 .. n - 1 |-> 0],
     epoch_length_ |-> Max(k, SqrtPlusOne(n)),
     prefetch_buffer_ |-> <<>>,
     num_interactions_ |-> 0, num_runs_ |-> 0, num_epochs_ |-> 0,
     pc |-> "single", intraepoch |-> 0, monitor_calls |-> 0, verdict |-> TRUE])

RECURSIVE draw_second(_, _)
\* do second = agent_distr_(prng_) while (second == first): (simulator, second)
draw_second(e, first) ==
    IF e.seeded
    THEN LET x == e.prng % e.n0
         IN  IF x = first THEN draw_second(Consume(e), first)
             ELSE {<<Consume(e), x>>}
    ELSE {<<e, x>> : x \in (0 .. e.n0 - 1) \ {first}}

\* two distinct agents: (simulator, first, second)
draw_pair(e) ==
    UNION {{<<q[1], first, q[2]>> : q \in draw_second(Consume(e), first)}
           : first \in Choose(e, 0, e.n0 - 1)}

\* the interaction of the agents first and second of the population
interact(e, first, second) ==
    {[e EXCEPT !.population_ =
         [@ EXCEPT ![first] = t[1],
                   ![second] = IF is_one_way(e.protocol) THEN @ ELSE t[2]]]
     : t \in transition(e.protocol, e.num_states_,
                        e.population_[first], e.population_[second])}

\* prefetch_pair
prefetch_pair(e) ==
    {[q[1] EXCEPT !.prefetch_buffer_ = @ \o <<q[2], q[3]>>] : q \in draw_pair(e)}

\* perform_prefetched_pair
perform_prefetched_pair(e) ==
    interact([e EXCEPT !.prefetch_buffer_ = Tail(Tail(@))],
             e.prefetch_buffer_[1], e.prefetch_buffer_[2])

\* the loop that follows when one loop of the epoch has run `intraepoch` times
PopAdvance(e) ==
    LET k == e.kPrefetchInteractions
        limit == CASE e.pc = "single" -> e.epoch_length_
                   [] e.pc = "middle" -> e.epoch_length_ - k
                   [] OTHER -> k
    IN  IF e.intraepoch < limit THEN e
        ELSE IF e.pc = "prefetch"
        THEN IF e.epoch_length_ - k > 0
             THEN [e EXCEPT !.pc = "middle", !.intraepoch = 0]
             ELSE [e EXCEPT !.pc = "post", !.intraepoch = 0]
        ELSE IF e.pc = "middle" THEN [e EXCEPT !.pc = "post", !.intraepoch = 0]
        ELSE RefCommit(e, TRUE)

\* one pass of the loop of AsyncPopulationSimulator::run that is running
pop_step(e) ==
    LET body == CASE e.pc = "single" ->
                       UNION {interact(q[1], q[2], q[3]) : q \in draw_pair(e)}
                  [] e.pc = "prefetch" -> prefetch_pair(e)
                  [] e.pc = "middle" ->
                       UNION {prefetch_pair(x) : x \in perform_prefetched_pair(e)}
                  [] OTHER -> perform_prefetched_pair(e)
    IN  {PopAdvance([x EXCEPT !.intraepoch = @ + 1]) : x \in body}

\* while (monitor(*this)) of the reference simulators
ref_monitor(e, verdict) ==
    LET m == [e EXCEPT !.monitor_calls = @ + 1, !.verdict = verdict]
    IN  IF ~verdict THEN [m EXCEPT !.pc = "done"]
        ELSE IF e.sim = "pop" THEN PopEpoch(m)
        ELSE [m EXCEPT !.pc = "loop", !.intraepoch = 0]

\* ============================================================= the runs
\* the initial urns: all agents in state 0 for the increment protocols (the
\* test) and the randomised ones, all leaders, and main_majority's split
InitialUrn(p, n) ==
    CASE p = "leader" -> WU_add_balls(WeightedUrn(2), 1, n)
      [] p = "majority" ->
            WU_add_balls(WU_add_balls(WeightedUrn(4), 2, n \div 4 - 1),
                         3, n - n \div 4 + 1)
      [] p \in RandProtocols -> WU_add_balls(WeightedUrn(2), 0, n)
      [] OTHER -> WU_add_balls(WeightedUrn(BatchStates), 0, n)

\* the prefetch depths the test instantiates
PrefetchDepths == {0, 1, 10}

\* what the steady clock can show to have passed in a measurement, in ms
ElapsedValues == {10, 40}

BatchInits ==
    {AsyncBatchSimulator(InitialUrn(p, NumAgents), p, FALSE, 0)
     : p \in DetProtocols \cup RandProtocols}

RefInits ==
    {AsyncDistributionSimulator(k, RefStates, NumAgents, p, seed)
     : k \in {"linear", "tree"}, p \in IncrementOne, seed \in 1 .. MaxSeed}
    \cup {AsyncPopulationSimulator(k, RefStates, NumAgents, p, seed)
          : k \in PrefetchDepths, p \in IncrementOne, seed \in 1 .. MaxSeed}

\* no urn is under test while a simulator runs
NoUrn ==
    /\ kind = "none"
    /\ urn = <<>>
    /\ ref = <<>>
    /\ last = [op |-> "none", color |-> -1, pre |-> <<>>, pre_n |-> 0,
               other |-> <<>>]
    /\ walk = NoWalk

\* one simulator, all its draws free (the reference simulators run seeded)
Init == NoUrn /\ eng \in {<<e>> : e \in BatchInits \cup RefInits}

\* two runs of the batch engine with the same seed, protocol and urn
InitSeed ==
    /\ NoUrn
    /\ eng \in {<<e, e>> : e \in
          {AsyncBatchSimulator(InitialUrn(p, NumAgents), p, TRUE, seed)
           : p \in {"leader", "majority"}, seed \in 1 .. MaxSeed}}

\* how far a run has come: twice its monitor calls, plus one at the monitor
Rank(e) == 2 * e.monitor_calls + (IF e.pc = "monitor" THEN 1 ELSE 0)

\* two runs proceed in turns, from one monitor call to the next
Active(r) ==
    IF Len(eng) = 1 THEN TRUE
    ELSE IF r = 1 THEN Rank(eng[1]) <= Rank(eng[2])
    ELSE Rank(eng[2]) < Rank(eng[1])

Step(r, successors) ==
    /\ Active(r)
    /\ \E s \in successors : eng' = [eng EXCEPT ![r] = s]
    /\ UNCHANGED <<kind, urn, ref, last, walk>>

\* run r exists, is a simulator of kind `sim` and stands at `pc`
At(r, sim, pc) == r <= Len(eng) /\ eng[r].sim = sim /\ eng[r].pc = pc

Start(r) == At(r, "batch", "start") /\ Step(r, {run_start(eng[r])})

RunLength(r) ==
    /\ At(r, "batch", "length")
    /\ eng[r].seeded \/ eng[r].num_runs_ < MaxRuns
    /\ Step(r, {s \in sample_run_length(eng[r]) :
                  eng[r].seeded \/ s.num_delayed_agents_ <= MaxDelayed})

CollisionOnSecond(r) ==
    At(r, "batch", "second") /\ Step(r, collision_on_second(eng[r]))

SampleAgent(r) == At(r, "batch", "agent") /\ Step(r, sample_agent(eng[r]))

SampleDelayedAgent(r) ==
    At(r, "batch", "delayed") /\ Step(r, sample_delayed_agent(eng[r]))

PlantCollision(r) ==
    At(r, "batch", "interact") /\ Step(r, plant_collision(eng[r]))

RemoveRandomBalls(r) ==
    At(r, "batch", "remove") /\ Step(r, remove_random_balls_step(eng[r]))

\* binding skipable_transactions_[first_state] in the partitioned variant
\* reads an empty vector out of range: the build goes on, or it aborts
TaskStart(r) ==
    /\ At(r, "batch", "task")
    /\ Step(r, task_start(eng[r])
               \cup (IF partitioned(eng[r])
                     THEN {[eng[r] EXCEPT !.pc = "undefined"]} ELSE {}))

WalkStep(r) == At(r, "batch", "walk") /\ Step(r, walk_step(eng[r]))

Commit(r) ==
    /\ At(r, "batch", "commit")
    /\ Step(r, {commit(eng[r], t) : t \in ElapsedValues})

\* the monitor answers as it likes; in the second of two runs it answers as
\* it did in the first
Monitor(r) ==
    /\ r <= Len(eng)
    /\ eng[r].pc = "monitor"
    /\ Step(r, {IF eng[r].sim = "batch" THEN monitor(eng[r], verdict)
                ELSE ref_monitor(eng[r], verdict)
                : verdict \in
                    {v \in BOOLEAN :
                       /\ v => eng[r].num_epochs_ <
                                  (IF Len(eng) = 2 THEN MaxSeedEpochs ELSE MaxEpochs)
                       /\ r = 2 => v = eng[1].verdict}})

DistrStep(r) == At(r, "distr", "loop") /\ Step(r, distr_step(eng[r]))

PopStep(r) ==
    /\ r <= Len(eng)
    /\ eng[r].sim = "pop"
    /\ eng[r].pc \in {"single", "prefetch", "middle", "post"}
    /\ Step(r, pop_step(eng[r]))

\* the runs a behaviour can hold
Runs == {1, 2}

Next ==
    \/ \E r \in Runs : Start(r)
    \/ \E r \in Runs : RunLength(r)
    \/ \E r \in Runs : CollisionOnSecond(r)
    \/ \E r \in Runs : SampleAgent(r)
    \/ \E r \in Runs : SampleDelayedAgent(r)
    \/ \E r \in Runs : PlantCollision(r)
    \/ \E r \in Runs : RemoveRandomBalls(r)
    \/ \E r \in Runs : TaskStart(r)
    \/ \E r \in Runs : WalkStep(r)
    \/ \E r \in Runs : Commit(r)
    \/ \E r \in Runs : Monitor(r)
    \/ \E r \in Runs : DistrStep(r)
    \/ \E r \in Runs : PopStep(r)

Spec == Init /\ [][Next]_vars

NextSeed ==
    \/ \E r \in Runs : Start(r)
    \/ \E r \in Runs : RunLength(r)
    \/ \E r \in Runs : CollisionOnSecond(r)
    \/ \E r \in Runs : SampleAgent(r)
    \/ \E r \in Runs : SampleDelayedAgent(r)
    \/ \E r \in Runs : PlantCollision(r)
    \/ \E r \in Runs : RemoveRandomBalls(r)
    \/ \E r \in Runs : TaskStart(r)
    \/ \E r \in Runs : WalkStep(r)
    \/ \E r \in Runs : Commit(r)
    \/ \E r \in Runs : Monitor(r)

SpecSeed == InitSeed /\ [][NextSeed]_vars

\* ---------------------------------------- the sampling phase on its own
\* the first epoch of a batch simulation up to the end of
\* sample_run_lengths_and_plant_collisions, for the protocols whose states
\* stay within the urn whatever the number of runs
SamplingInit ==
    /\ NoUrn
    /\ eng \in {<<AsyncBatchSimulator(InitialUrn(p, SamplingAgents), p, FALSE, 0)>>
                : p \in {"leader", "majority"} \cup RandProtocols}

\* the head of a run: set_red and the draw of the run length
SamplingRunLength ==
    /\ At(1, "batch", "length")
    /\ eng[1].num_runs_ < MaxSamplingRuns
    /\ Step(1, sample_run_length(eng[1]))

SamplingNext ==
    \/ Start(1)
    \/ SamplingRunLength
    \/ CollisionOnSecond(1)
    \/ SampleAgent(1)
    \/ SampleDelayedAgent(1)
    \/ PlantCollision(1)

SpecSampling == SamplingInit /\ [][SamplingNext]_vars

\* ------------------------------------------- small populations, any urn
\* whole epochs of a batch simulation started from any urn of 2 to
\* MaxSmallAgents balls, for the protocols whose states stay within the urn
\* whatever the number of runs
SmallInit ==
    /\ NoUrn
    /\ eng \in UNION {
          LET S == IF p = "majority" THEN 4 ELSE 2
          IN  {<<AsyncBatchSimulator(
                     [balls_with_color_ |-> v, number_of_balls_ |-> SumTo(v, S)],
                     p, FALSE, 0)>>
               : v \in {w \in Vectors(S, MaxSmallAgents) : SumTo(w, S) >= 2}}
          : p \in {"leader", "majority"} \cup RandProtocols}

\* the head of a run: set_red and the draw of the run length
SmallRunLength ==
    /\ At(1, "batch", "length")
    /\ eng[1].num_runs_ < MaxSmallRuns
    /\ Step(1, sample_run_length(eng[1]))

SmallNext ==
    \/ Start(1)
    \/ SmallRunLength
    \/ CollisionOnSecond(1)
    \/ SampleAgent(1)
    \/ SampleDelayedAgent(1)
    \/ PlantCollision(1)
    \/ RemoveRandomBalls(1)
    \/ TaskStart(1)
    \/ WalkStep(1)
    \/ Commit(1)
    \/ Monitor(1)

SpecSmall == SmallInit /\ [][SmallNext]_vars

\* ------------------------------------------- the controller on its own
\* an EpochLengthController(n) that is started once and then updated after
\* every epoch, as run() does; an epoch adds current() interactions and the
\* steady clock advances by one of ElapsedValues. `calls` counts the update()
\* calls since the phase was entered, `entered` is measure_number_of_epochs_
\* at that moment, and `left` keeps both for the phase left last.
ControllerInit ==
    /\ NoUrn
    /\ \E n \in 1 .. MaxControllerAgents :
          eng = <<[sim |-> "controller", pc |-> "new", n |-> n,
                   target_epoch_length_ |-> EpochLengthController(n),
                   num_interactions_ |-> 0, updates |-> 0, calls |-> 0,
                   entered |-> kMeasureNumberOfEpochs,
                   left |-> [calls |-> 0, entered |-> 0]]>>

\* target_epoch_length_.start()
ControllerStart ==
    /\ eng[1].pc = "new"
    /\ eng' = <<[eng[1] EXCEPT
                   !.pc = "run",
                   !.target_epoch_length_ = ELC_start(@),
                   !.calls = 0,
                   !.entered = eng[1].target_epoch_length_.measure_number_of_epochs_]>>
    /\ UNCHANGED <<kind, urn, ref, last, walk>>

\* target_epoch_length_.update(num_interactions_) at the end of an epoch
ControllerUpdate ==
    /\ eng[1].pc = "run"
    /\ eng[1].updates < MaxControllerUpdates
    /\ \E time_elapsed \in ElapsedValues :
          LET c == eng[1].target_epoch_length_
              num_interactions == eng[1].num_interactions_ + c.current_measurement_
              c1 == ELC_update(c, num_interactions, time_elapsed)
              leaves == c.measure_epochs_ >= c.measure_number_of_epochs_
          IN  eng' = <<[eng[1] EXCEPT
                         !.target_epoch_length_ = c1,
                         !.num_interactions_ = num_interactions,
                         !.updates = @ + 1,
                         !.calls = IF leaves THEN 0 ELSE @ + 1,
                         !.entered = IF leaves THEN c1.measure_number_of_epochs_
                                     ELSE @,
                         !.left = IF leaves
                                  THEN [calls |-> eng[1].calls + 1,
                                        entered |-> eng[1].entered]
                                  ELSE @]>>
    /\ UNCHANGED <<kind, urn, ref, last, walk>>

ControllerNext == ControllerStart \/ ControllerUpdate

SpecController == ControllerInit /\ [][ControllerNext]_vars

\* ------------------------------------------- the construction on its own
\* a configuration: number_of_colors and number_of_balls of the initial urn,
\* and whether the build keeps its assertions (NDEBUG not defined)
ConstructInit ==
    /\ NoUrn
    /\ \E S \in 1 .. MaxConstructStates, N \in 0 .. MaxConstructAgents,
          checked \in BOOLEAN :
          eng = <<[sim |-> "construct", pc |-> "new", S |-> S, N |-> N,
                   checked |-> checked,
                   target_epoch_length_ |-> EpochLengthController(N),
                   stage_factor_ |-> 0, current_stage_ |-> 0, red |-> -1,
                   num_interactions_ |-> 0, updates |-> 0]>>

\* the constructor: the members in their order of declaration (the
\* controller, then the collision distribution with max_g = 2 * max(), whose
\* constructor calls set_red(0) and fills its tables), then the body with its
\* check of the urn. The tables of a stage whose red_upper reaches n are
\* bisected over lgamma of a non-positive number; the assertion on their
\* limits can then fail or pass
Construct ==
    /\ eng[1].pc = "new"
    /\ LET e == eng[1]
           max_g == 2 * e.target_epoch_length_.max_
           stage_factor_ == CD_stage_factor(max_g)
       IN  \E stage \in CD_set_red(stage_factor_, 0) :
           \E limits_ok \in IF max_g >= e.N THEN BOOLEAN ELSE {TRUE} :
              eng' = <<[e EXCEPT
                         !.stage_factor_ = stage_factor_,
                         !.current_stage_ = stage,
                         !.red = 0,
                         !.pc = IF e.checked /\ stage >= kNumStages THEN "aborted"
                                ELSE IF e.checked /\ ~limits_ok THEN "aborted"
                                ELSE IF e.N > 0 THEN "built" ELSE "died"]>>
    /\ UNCHANGED <<kind, urn, ref, last, walk>>

\* run: target_epoch_length_.start()
ConstructStart ==
    /\ eng[1].pc = "built"
    /\ eng' = <<[eng[1] EXCEPT !.pc = "run",
                               !.target_epoch_length_ = ELC_start(@)]>>
    /\ UNCHANGED <<kind, urn, ref, last, walk>>

\* collision_distr_.set_red(num_colliding_agents) at the head of a run of
\* sample_run_lengths_and_plant_collisions: the loop condition bounds the
\* argument by the current target
ConstructSetRed ==
    /\ eng[1].pc = "run"
    /\ \E g \in 0 .. eng[1].target_epoch_length_.current_measurement_ - 1 :
       \E stage \in CD_set_red(eng[1].stage_factor_, g) :
          eng' = <<[eng[1] EXCEPT
                     !.current_stage_ = stage,
                     !.red = g,
                     !.pc = IF eng[1].checked /\ stage >= kNumStages
                            THEN "aborted" ELSE @]>>
    /\ UNCHANGED <<kind, urn, ref, last, walk>>

\* the end of an epoch: target_epoch_length_.update(num_interactions_)
ConstructUpdate ==
    /\ eng[1].pc = "run"
    /\ eng[1].updates < MaxConstructUpdates
    /\ \E time_elapsed \in ElapsedValues :
          LET c == eng[1].target_epoch_length_
              num_interactions == eng[1].num_interactions_ + c.current_measurement_
          IN  eng' = <<[eng[1] EXCEPT
                         !.target_epoch_length_ =
                             ELC_update(c, num_interactions, time_elapsed),
                         !.num_interactions_ = num_interactions,
                         !.updates = @ + 1]>>
    /\ UNCHANGED <<kind, urn, ref, last, walk>>

ConstructNext ==
    \/ Construct
    \/ ConstructStart
    \/ ConstructSetRed
    \/ ConstructUpdate

SpecConstruct == ConstructInit /\ [][ConstructNext]_vars

\* ------------------------------------------------------ AsyncRandomEngine
\* the engine after its constructor: num_blocks empty blocks, the generator
\* thread at the head of generator_main, no call of operator() under way.
\* consumer: "idle" between calls, "lock" at line 64, "locked" inside the
\* predicate of cv_.wait or the handover, "asleep" inside cv_.wait with the
\* mutex released, "relock" woken and about to take the mutex again,
\* "relocked" inside the predicate or the handover after a wake-up.
\* generator: the same positions in its first block (start_...) and in its
\* loop, and "generate" while it fills current_block.
\* running_ stays true until the destructor, which these steps do not reach
AsyncRandomEngine(num_blocks) ==
    [sim |-> "random", num_blocks |-> num_blocks,
     empty_blocks_ |-> num_blocks, full_blocks_ |-> 0,
     block_consuming_ |-> 0, current_block |-> 0,
     mutex_ |-> "free", consumer |-> "idle", generator |-> "start_lock"]

\* cv_.notify_one() by one thread: the other one, if it sleeps, wakes
ARE_notify_one(e, by) ==
    IF by = "consumer"
    THEN [e EXCEPT !.generator = CASE @ = "asleep" -> "relock"
                                   [] @ = "start_asleep" -> "start_relock"
                                   [] OTHER -> @]
    ELSE [e EXCEPT !.consumer = IF @ = "asleep" THEN "relock" ELSE @]

\* operator() up to the mutex: with values left in block_consuming_ it pops
\* one and returns
ARE_call(e) ==
    IF e.block_consuming_ = 0 THEN [e EXCEPT !.consumer = "lock"]
    ELSE [e EXCEPT !.block_consuming_ = @ - 1]

\* operator() under the mutex: the predicate of cv_.wait, then the handover,
\* the notification and the value returned from the new block
ARE_consumer_locked(e) ==
    IF e.full_blocks_ = 0
    THEN [e EXCEPT !.mutex_ = "free", !.consumer = "asleep"]
    ELSE ARE_notify_one([e EXCEPT !.empty_blocks_ = @ + 1,
                                  !.block_consuming_ = ElementsInBlock - 1,
                                  !.full_blocks_ = @ - 1,
                                  !.mutex_ = "free",
                                  !.consumer = "idle"], "consumer")

\* generator_main, first block, under the mutex
ARE_generator_start(e) ==
    IF e.empty_blocks_ = 0
    THEN [e EXCEPT !.mutex_ = "free", !.generator = "start_asleep"]
    ELSE [e EXCEPT !.empty_blocks_ = @ - 1, !.current_block = 0,
                   !.mutex_ = "free", !.generator = "generate"]

\* generator_main, the loop's handover under the mutex: the full block is
\* published once an empty block can be taken in exchange
ARE_generator_locked(e) ==
    IF e.empty_blocks_ = 0
    THEN [e EXCEPT !.mutex_ = "free", !.generator = "asleep"]
    ELSE ARE_notify_one([e EXCEPT !.full_blocks_ = @ + 1,
                                  !.current_block = 0,
                                  !.empty_blocks_ = @ - 1,
                                  !.mutex_ = "free",
                                  !.generator = "generate"], "generator")

RandomInit ==
    /\ NoUrn
    /\ \E num_blocks \in 0 .. MaxBlocks : eng = <<AsyncRandomEngine(num_blocks)>>

\* a call of operator() by the consumer
Call ==
    /\ eng[1].consumer = "idle"
    /\ eng' = <<ARE_call(eng[1])>>
    /\ UNCHANGED <<kind, urn, ref, last, walk>>

\* std::unique_lock lock(mutex_), or the mutex taken again inside cv_.wait
ConsumerLock ==
    /\ eng[1].consumer \in {"lock", "relock"}
    /\ eng[1].mutex_ = "free"
    /\ eng' = <<[eng[1] EXCEPT
                   !.mutex_ = "consumer",
                   !.consumer = IF @ = "lock" THEN "locked" ELSE "relocked"]>>
    /\ UNCHANGED <<kind, urn, ref, last, walk>>

ConsumerLocked ==
    /\ eng[1].consumer \in {"locked", "relocked"}
    /\ eng' = <<ARE_consumer_locked(eng[1])>>
    /\ UNCHANGED <<kind, urn, ref, last, walk>>

GeneratorLock ==
    /\ eng[1].generator \in {"start_lock", "start_relock", "lock", "relock"}
    /\ eng[1].mutex_ = "free"
    /\ eng' = <<[eng[1] EXCEPT
                   !.mutex_ = "generator",
                   !.generator = IF @ \in {"start_lock", "start_relock"}
                                 THEN "start_locked" ELSE "locked"]>>
    /\ UNCHANGED <<kind, urn, ref, last, walk>>

GeneratorStart ==
    /\ eng[1].generator = "start_locked"
    /\ eng' = <<ARE_generator_start(eng[1])>>
    /\ UNCHANGED <<kind, urn, ref, last, walk>>

\* the loop that fills current_block with kElementsInBlock values
Generate ==
    /\ eng[1].generator = "generate"
    /\ eng' = <<[eng[1] EXCEPT !.current_block = ElementsInBlock,
                               !.generator = "lock"]>>
    /\ UNCHANGED <<kind, urn, ref, last, walk>>

GeneratorLocked ==
    /\ eng[1].generator = "locked"
    /\ eng' = <<ARE_generator_locked(eng[1])>>
    /\ UNCHANGED <<kind, urn, ref, last, walk>>

\* condition_variable::wait may return without a notification
SpuriousWakeup ==
    /\ \/ /\ eng[1].consumer = "asleep"
          /\ eng' = <<[eng[1] EXCEPT !.consumer = "relock"]>>
       \/ /\ eng[1].generator \in {"asleep", "start_asleep"}
          /\ eng' = <<[eng[1] EXCEPT
                         !.generator = IF @ = "asleep" THEN "relock"
                                       ELSE "start_relock"]>>
    /\ UNCHANGED <<kind, urn, ref, last, walk>>

GeneratorSteps == GeneratorStart \/ Generate \/ GeneratorLocked

RandomNext ==
    \/ Call
    \/ ConsumerLock
    \/ ConsumerLocked
    \/ GeneratorLock
    \/ GeneratorSteps
    \/ SpuriousWakeup

\* both threads are scheduled, and a thread that finds the mutex free again
\* and again takes it; neither a further call nor a wake-up without
\* notification is promised
SpecRandom ==
    /\ RandomInit
    /\ [][RandomNext]_vars
    /\ SF_vars(ConsumerLock) /\ WF_vars(ConsumerLocked)
    /\ SF_vars(GeneratorLock) /\ WF_vars(GeneratorSteps)

\* --------------------------------------- AsyncRandomEngine, destruction
\* the engine with running_ and its destructor, which the thread that calls
\* operator() runs between two calls. destructor: "alive" before it, "notify"
\* after running_ = false, "join" after cv_.notify_one(), "joined" when
\* generator_.join() has returned. The destructor writes running_ and
\* notifies without holding mutex_, so the generator's cv_.wait is taken in
\* steps: the predicate under the mutex ("start_locked", "locked"), then, the
\* predicate found false, the release of the mutex with the block
\* ("start_block", "block"). The generator is "exited" behind its loop.
DestructibleEngine(num_blocks) ==
    [sim |-> "destructible", num_blocks |-> num_blocks,
     empty_blocks_ |-> num_blocks, full_blocks_ |-> 0,
     block_consuming_ |-> 0, current_block |-> 0,
     mutex_ |-> "free", consumer |-> "idle", generator |-> "start_lock",
     running_ |-> TRUE, destructor |-> "alive"]

\* the predicate of the first cv_.wait of generator_main, under the mutex
ARE_start_predicate(e) ==
    IF e.empty_blocks_ = 0 THEN [e EXCEPT !.generator = "start_block"]
    ELSE [e EXCEPT !.empty_blocks_ = @ - 1, !.current_block = 0,
                   !.mutex_ = "free", !.generator = "generate"]

\* while (running_) and the loop that fills current_block
ARE_loop_head(e) ==
    IF ~e.running_ THEN [e EXCEPT !.generator = "exited"]
    ELSE [e EXCEPT !.current_block = ElementsInBlock, !.generator = "lock"]

\* the predicate of the loop's cv_.wait under the mutex, then the break or
\* the handover
ARE_loop_predicate(e) ==
    IF e.empty_blocks_ = 0 /\ e.running_ THEN [e EXCEPT !.generator = "block"]
    ELSE IF ~e.running_
    THEN [e EXCEPT !.mutex_ = "free", !.generator = "exited"]
    ELSE ARE_notify_one([e EXCEPT !.full_blocks_ = @ + 1,
                                  !.current_block = 0,
                                  !.empty_blocks_ = @ - 1,
                                  !.mutex_ = "free",
                                  !.generator = "generate"], "generator")

\* condition_variable::wait(lock): the mutex is released and the thread blocks
ARE_block(e) ==
    [e EXCEPT !.mutex_ = "free",
              !.generator = IF @ = "start_block" THEN "start_asleep" ELSE "asleep"]

\* ~AsyncRandomEngine, one statement at a time
ARE_destructor(e) ==
    CASE e.destructor = "alive" ->
            [e EXCEPT !.running_ = FALSE, !.destructor = "notify"]
      [] e.destructor = "notify" ->
            [ARE_notify_one(e, "consumer") EXCEPT !.destructor = "join"]
      [] OTHER -> [e EXCEPT !.destructor = "joined"]

DestroyInit ==
    /\ NoUrn
    /\ \E num_blocks \in 0 .. MaxBlocks : eng = <<DestructibleEngine(num_blocks)>>

\* the calls of operator() before the destructor
DestroyCall == eng[1].destructor = "alive" /\ Call

DestroyGeneratorLock ==
    /\ eng[1].generator \in {"start_lock", "start_relock", "lock", "relock"}
    /\ GeneratorLock

DestroyGeneratorPredicate ==
    /\ eng[1].generator \in {"start_locked", "locked"}
    /\ eng' = <<IF eng[1].generator = "start_locked"
                THEN ARE_start_predicate(eng[1])
                ELSE ARE_loop_predicate(eng[1])>>
    /\ UNCHANGED <<kind, urn, ref, last, walk>>

DestroyGeneratorBlock ==
    /\ eng[1].generator \in {"start_block", "block"}
    /\ eng' = <<ARE_block(eng[1])>>
    /\ UNCHANGED <<kind, urn, ref, last, walk>>

DestroyGenerate ==
    /\ eng[1].generator = "generate"
    /\ eng' = <<ARE_loop_head(eng[1])>>
    /\ UNCHANGED <<kind, urn, ref, last, walk>>

\* running_ = false, then cv_.notify_one(), then generator_.join(), which
\* returns once generator_main has returned
Destroy ==
    /\ eng[1].consumer = "idle"
    /\ eng[1].destructor \in {"alive", "notify", "join"}
    /\ eng[1].destructor = "join" => eng[1].generator = "exited"
    /\ eng' = <<ARE_destructor(eng[1])>>
    /\ UNCHANGED <<kind, urn, ref, last, walk>>

DestroyGeneratorSteps ==
    DestroyGeneratorPredicate \/ DestroyGeneratorBlock \/ DestroyGenerate

DestroyNext ==
    \/ DestroyCall
    \/ ConsumerLock
    \/ ConsumerLocked
    \/ DestroyGeneratorLock
    \/ DestroyGeneratorSteps
    \/ SpuriousWakeup
    \/ Destroy

\* both threads are scheduled and the destructor, once entered, goes on; a
\* wake-up without notification is not promised
SpecDestroy ==
    /\ DestroyInit
    /\ [][DestroyNext]_vars
    /\ SF_vars(ConsumerLock) /\ WF_vars(ConsumerLocked)
    /\ SF_vars(DestroyGeneratorLock) /\ WF_vars(DestroyGeneratorSteps)
    /\ WF_vars(Destroy /\ eng[1].destructor # "alive")

\* ---------------------------------------------------------- engine claims
\* the monitor's view of a simulator: sim.agents() as counts per state
\* (AsyncPopulationSimulator::agents() counts the population into an urn)
agents(e) ==
    CASE e.sim = "batch" -> e.agents_.balls_with_color_
      [] e.sim = "distr" -> Balls(e.urn_type, e.agents_)
      [] OTHER -> [c \in 0 .. e.num_states_ - 1 |->
                      Cardinality({a \in DOMAIN e.population_ : e.population_[a] = c})]

\* state_sum of count_interactions: the sum over the states i of i * c[i]
state_sum(c) == SumOver([i \in DOMAIN c |-> i * c[i]], DOMAIN c)

\* the runs of the batch engine
BatchRuns == {r \in 1 .. Len(eng) : eng[r].sim = "batch"}

\* the positions of run inside an epoch
InEpoch == {"length", "second", "agent", "delayed", "interact", "remove",
            "task", "walk", "commit"}

\* C1: each time the monitor is invoked, agents().number_of_balls() equals the
\* ball count of the urn passed to the constructor, and the balls per state
\* add up to it, for every protocol capability combination
C1_Conservation ==
    \A r \in BatchRuns :
        eng[r].pc = "monitor" =>
            /\ eng[r].agents_.number_of_balls_ = eng[r].n0
            /\ SumTo(eng[r].agents_.balls_with_color_, num_states(eng[r]))
                   = eng[r].n0

\* the monitor is invoked after a second epoch of the majority protocol (skip
\* heuristic in use) whose bulk phase changed the distribution
C1_Witness ==
    /\ Len(eng) = 1
    /\ eng[1].sim = "batch"
    /\ eng[1].protocol = "majority"
    /\ eng[1].use_skip_heuristic_
    /\ eng[1].pc = "monitor"
    /\ eng[1].num_epochs_ = 2
    /\ eng[1].num_interactions_ > eng[1].num_runs_
    /\ eng[1].agents_.balls_with_color_[0] > 0

\* C2: for the four increment-one protocols started with all agents in state
\* 0, at every monitor call state_sum divided by the increments per
\* interaction equals num_interactions(), in the batch engine, the distribution
\* simulator and the population simulator (prefetch 0, 1 and 10)
C2_InteractionCount ==
    \A r \in 1 .. Len(eng) :
        (eng[r].protocol \in IncrementOne /\ eng[r].pc = "monitor") =>
            state_sum(agents(eng[r])) \div kIncreasePerInteraction(eng[r].protocol)
                = eng[r].num_interactions_

\* the batch engine calls the monitor after two epochs of the two-way-both
\* protocol with delayed interactions carried out in the bulk phase
C2_Witness ==
    /\ Len(eng) = 1
    /\ eng[1].sim = "batch"
    /\ eng[1].protocol = "inc_both"
    /\ eng[1].pc = "monitor"
    /\ eng[1].num_epochs_ = 2
    /\ eng[1].num_interactions_ >= eng[1].num_runs_ + 3

\* two seeded runs stand at corresponding monitor calls
Corresponding ==
    /\ Len(eng) = 2
    /\ eng[1].pc = "monitor"
    /\ eng[2].pc = "monitor"
    /\ eng[1].monitor_calls = eng[2].monitor_calls

SameCounters ==
    /\ eng[1].num_interactions_ = eng[2].num_interactions_
    /\ eng[1].num_runs_ = eng[2].num_runs_
    /\ eng[1].num_epochs_ = eng[2].num_epochs_

C4_MonitorProtocol ==
    \A r \in BatchRuns :
        /\ eng[r].pc = "monitor" =>
              /\ eng[r].num_epochs_ = eng[r].monitor_calls + 1
              /\ eng[r].monitor_calls > 0 => eng[r].verdict
        /\ eng[r].pc \in InEpoch =>
              /\ eng[r].num_epochs_ = eng[r].monitor_calls
              /\ eng[r].monitor_calls > 0 => eng[r].verdict
        /\ eng[r].pc = "done" =>
              /\ ~eng[r].verdict
              /\ eng[r].monitor_calls >= 1
              /\ eng[r].num_epochs_ = eng[r].monitor_calls

\* run has returned after the monitor answered true once and then false
C4_Witness ==
    /\ Len(eng) = 1
    /\ eng[1].sim = "batch"
    /\ eng[1].pc = "done"
    /\ eng[1].monitor_calls = 2
    /\ eng[1].num_epochs_ = 2

\* the epoch is committed when the monitor is invoked
C5_AtMonitor ==
    \A r \in BatchRuns :
        eng[r].pc = "monitor" =>
            /\ eng[r].updated_agents_.number_of_balls_ = 0
            /\ \A c \in DOMAIN eng[r].updated_agents_.balls_with_color_ :
                  eng[r].updated_agents_.balls_with_color_[c] = 0
            /\ eng[r].num_delayed_agents_ = 0
            /\ eng[r].num_epochs_ = eng[r].monitor_calls + 1
            /\ eng[r].updates = eng[r].num_epochs_

\* a step that starts an epoch starts it with an empty updated urn
C5_AtEpochStart ==
    \A r \in BatchRuns :
        Len(eng'[r].targets) > Len(eng[r].targets) =>
            eng'[r].updated_agents_.number_of_balls_ = 0

\* C5: whenever the monitor for epoch e is invoked the updated urn is merged
\* and empty, the delayed-agent counter is 0, num_epochs() is e and the
\* controller has been notified of e; whenever an epoch starts the updated urn
\* is empty
C5_EpochCommitted == []C5_AtMonitor /\ [][C5_AtEpochStart]_vars

\* the monitor is invoked for the second epoch, in which agents were delayed
\* and updated
C5_Witness ==
    /\ Len(eng) = 1
    /\ eng[1].sim = "batch"
    /\ eng[1].pc = "monitor"
    /\ eng[1].monitor_calls = 1
    /\ eng[1].updates = 2
    /\ eng[1].num_interactions_ > eng[1].num_runs_ + 1
    /\ Len(eng[1].targets) = 2

\* C9: the delayed-agent counter is even in every reachable state
C9_DelayedEven ==
    \A r \in BatchRuns : eng[r].num_delayed_agents_ % 2 = 0

\* a delayed agent was drawn in a run of length 4: two of the four delayed
\* agents are left
C9_Witness ==
    /\ Len(eng) = 1
    /\ eng[1].sim = "batch"
    /\ eng[1].pc = "interact"
    /\ eng[1].round_length = 4
    /\ eng[1].num_delayed_agents_ = 2
    /\ eng[1].updated_agents_.number_of_balls_ = 1

\* ------------------------------------------------------------- urn claims
RECURSIVE SeqSum(_)
\* sum of the counts of a sequence of (color, count) pairs
SeqSum(q) == IF q = <<>> THEN 0 ELSE q[1][2] + SeqSum(Tail(q))

RECURSIVE SubtreeSum(_, _)
\* sum of the leaves (balls of the colors) below node j of a TreeUrn
SubtreeSum(u, j) ==
    IF j >= u.first_leaf_
    THEN IF j < u.first_leaf_ + u.number_of_colors_ THEN u.tree[j] ELSE 0
    ELSE SubtreeSum(u, 2 * j) + SubtreeSum(u, 2 * j + 1)

\* C6: for every urn type, after any sequence of operations number_of_balls()
\* is the sum of the per-color counts, every per-color count equals the
\* reference multiset of the test, and remove_random_ball returned a color
\* of the urn that held a ball (the reference count stays non-negative).
C6_CountsMatchReference ==
    /\ number_of_balls(kind, urn) = SumTo(Balls(kind, urn), number_of_colors(kind, urn))
    /\ \A c \in Colors : number_of_balls_with_color(kind, urn, c) = ref[c]
    /\ last.op = "remove_random_ball" =>
          last.color \in Colors /\ ref[last.color] >= 0

C6_Witness ==
    /\ last.op = "remove_random_ball"
    /\ kind = "alias"
    /\ number_of_balls(kind, urn) >= 2
    /\ \E c \in Colors : c # last.color /\ ref[c] > 0

\* C7: a sample_without_replacement / remove_random_balls walk for
\* 1 <= k <= N never runs past the last color, emits the colors in increasing
\* order, emits for each color at most the balls it held at the call, and
\* the emitted counts sum to exactly k when the walk ends.
C7_SampleExact ==
    /\ walk.phase = "walk" =>
          /\ walk.left_to_sample > 0
          /\ walk.it_from < number_of_colors(kind, urn)
    /\ SeqSum(walk.emitted) + walk.left_to_sample = walk.k
    /\ walk.phase = "idle" => walk.left_to_sample = 0
    /\ \A i \in 1 .. Len(walk.emitted) :
          /\ walk.emitted[i][2] >= 1
          /\ walk.emitted[i][2] <= walk.at_call[walk.emitted[i][1]]
          /\ \A j \in 1 .. i - 1 : walk.emitted[j][1] < walk.emitted[i][1]

C7_Witness ==
    /\ walk.phase = "idle"
    /\ walk.k >= 3
    /\ walk.removing
    /\ Len(walk.emitted) >= 2
    /\ SeqSum(walk.emitted) = walk.k

\* C8: add_urn leaves the urn with the element-wise sum of the counts and the
\* sum of the totals (both TreeUrn overloads, WeightedUrn, AliasUrnSimple),
\* and a TreeUrn stays usable for draws: every draw returns a color that
\* holds a ball, so merging one ball of color c into an empty TreeUrn makes
\* every draw return c.
C8_AddUrnSums ==
    last.op \in {"add_urn", "add_urn_tree"} =>
        /\ \A c \in Colors :
              number_of_balls_with_color(kind, urn, c) = last.pre[c] + last.other[c]
        /\ number_of_balls(kind, urn)
              = last.pre_n + SumTo(last.other, number_of_colors(kind, urn))
        /\ kind = "tree" =>
              \A v \in 0 .. number_of_balls(kind, urn) - 1 :
                 LET c == TU_get_random_ball_with_index(urn, v).color
                 IN  /\ c \in Colors
                     /\ number_of_balls_with_color(kind, urn, c) > 0
                     /\ (last.pre_n = 0 /\ number_of_balls(kind, urn) = 1)
                           => last.other[c] = 1

C8_Witness ==
    /\ last.op = "add_urn_tree"
    /\ kind = "tree"
    /\ number_of_colors(kind, urn) = 3
    /\ last.pre_n = 0
    /\ number_of_balls(kind, urn) = 1
    /\ last.other[2] = 1

C12_AliasConsistent ==
    (kind = "alias" /\ last.op \in {"add_balls", "remove_random_ball"}) =>
        /\ SumTo([r \in DOMAIN urn.alias_table_ |->
                     total_weight(urn.alias_table_[r])],
                 AU_number_of_colors(urn)) = number_of_balls(kind, urn)
        /\ \A r \in DOMAIN urn.alias_table_ :
              total_weight(urn.alias_table_[r]) <= urn.row_current_max_

C12_Witness ==
    /\ kind = "alias"
    /\ last.op = "remove_random_ball"
    /\ last.repair = "swap"
    /\ number_of_balls(kind, urn) >= 4
    /\ \E r \in DOMAIN urn.alias_table_ : urn.alias_table_[r].w1 > 0

\* C13: after every full rebuild of the alias table (bulk_commit, add_urn or a
\* failed repair), for any counts with total N over S colors, the rebuild
\* never took from an empty small_elements_ or large_elements_, every row
\* weighs floor(N/S) or floor(N/S)+1, and the rows sum to N.
C13_RebuildBalanced ==
    (kind = "alias"
       /\ (last.op \in {"bulk_commit", "add_urn"} \/ last.repair = "rebuild")) =>
        LET S == AU_number_of_colors(urn)
            N == number_of_balls(kind, urn)
            average_floored == N \div S
            built == AU_rebuild(urn)
        IN  /\ built.ok
            /\ \A r \in DOMAIN urn.alias_table_ :
                  /\ urn.alias_table_[r].w0 = built.table[r].w0
                  /\ urn.alias_table_[r].w1 = built.table[r].w1
                  /\ total_weight(urn.alias_table_[r])
                        \in {average_floored, average_floored + 1}
            /\ SumTo([r \in DOMAIN urn.alias_table_ |->
                         total_weight(urn.alias_table_[r])], S) = N

C13_Witness ==
    /\ kind = "alias"
    /\ last.op = "bulk_commit"
    /\ AU_number_of_colors(urn) = 4
    /\ number_of_balls(kind, urn) = 7
    /\ urn.balls_with_color_[3] = 4
    /\ urn.balls_with_color_[1] = 3
    /\ \E r \in DOMAIN urn.alias_table_ :
          urn.alias_table_[r].w0 = 0 /\ urn.alias_table_[r].w1 = 2

\* ------------------------------------------------------ controller claims
\* measured interactions per second of phase i, as (progress, time) pairs:
\* rate j is at most rate i
RateAtMost(m, j, i) == m[j][1] * m[i][2] <= m[i][1] * m[j][2]

\* C14 (phase order): the phase is MeasureBelow, MeasureCurrent or
\* MeasureAbove and a step that changes it moves to the next one in the
\* cycle; current_best() changes only in the update() that leaves MeasureAbove
\* and becomes the clamped candidate of a phase with the highest measured
\* rate; current() does not change within a phase.
C14_Step ==
    LET c == eng[1].target_epoch_length_
        d == eng'[1].target_epoch_length_
    IN  eng[1].pc = "run" =>
          /\ d.state_ # c.state_ => d.state_ = (c.state_ + 1) % 3
          /\ d.current_best_ # c.current_best_ =>
                /\ c.state_ = 2 /\ d.state_ = 0
                /\ \E i \in 1 .. 3 :
                      /\ \A j \in 1 .. 3 : RateAtMost(d.measured_times_, j, i)
                      /\ d.current_best_ = update_value(c, i - 1)
          /\ d.state_ = c.state_ => d.current_measurement_ = c.current_measurement_
          /\ (c.state_ = 2 /\ d.state_ = 0) =>
                \E i \in 1 .. 3 :
                   /\ \A j \in 1 .. 3 : RateAtMost(d.measured_times_, j, i)
                   /\ d.current_best_ = update_value(c, i - 1)

C14_PhaseCycle ==
    /\ [](eng[1].pc = "run" => eng[1].target_epoch_length_.state_ \in 0 .. 2)
    /\ [][C14_Step]_vars

C14_Witness ==
    /\ eng[1].sim = "controller"
    /\ eng[1].n = 40
    /\ eng[1].updates = 34
    /\ eng[1].target_epoch_length_.state_ = 0
    /\ eng[1].target_epoch_length_.current_best_ = 9
    /\ eng[1].target_epoch_length_.current_measurement_ = 8

\* C15: for every n >= 1 the controller has min_ <= max_, and current_best()
\* and, once started, current() lie in [min_, max_].
C15_WithinBounds ==
    LET c == eng[1].target_epoch_length_
    IN  /\ c.min_ <= c.max_
        /\ c.min_ <= c.current_best_ /\ c.current_best_ <= c.max_
        /\ eng[1].pc = "run" =>
              c.min_ <= c.current_measurement_ /\ c.current_measurement_ <= c.max_

\* C16: a phase lasts exactly M epochs, M being measure_number_of_epochs_
\* when the phase was entered (at least 10): the controller is still in the
\* phase after fewer than M update() calls and leaves it in the M-th.
C16_PhaseLastsM ==
    /\ eng[1].entered >= 10
    /\ eng[1].calls < eng[1].entered
    /\ eng[1].left.calls > 0 => eng[1].left.calls = eng[1].left.entered

\* ------------------------------------------------------ bulk-phase claims
\* C17: in the bulk phase a call of a randomised protocol for num interactions
\* that assigns exactly 2 * num states (two-way) or exactly num states (one-way)
\* is accepted, and the epoch completes with the ball count conserved; a call
\* that assigns any other number of states ends in the fatal error.
C17_AssignedContract ==
    \A r \in BatchRuns :
        LET e == eng[r]
            expected == IF is_one_way(e.protocol) THEN e.bulk.num
                        ELSE 2 * e.bulk.num
        IN  (~is_deterministic(e.protocol) /\ e.bulk.num > 0) =>
               /\ (e.bulk.assigned = expected) <=> (e.pc # "died")
               /\ e.pc = "monitor" => e.agents_.number_of_balls_ = e.n0

\* ------------------------------------------------------ construction claims
\* C18: constructing the batch engine from an empty urn, with fewer than 2
\* states, or from a population so small that the stage factor
\* (2 * B_max) / 16 is zero always ends in a fatal failure at construction; and
\* after every construction that succeeds, each g passed to set_red selects
\* the stage index floor(g / stage_factor), which lies in 0 .. 15.
C18_ConfigurationErrors ==
    LET e == eng[1]
        degenerate ==
            CD_stage_factor(2 * EpochLengthController(e.N).max_) = 0
    IN  /\ (e.pc # "new" /\ (e.N = 0 \/ e.S < 2 \/ degenerate)) =>
               e.pc \in {"died", "aborted"}
        /\ e.pc = "run" =>
               /\ e.current_stage_ \in 0 .. kNumStages - 1
               /\ e.stage_factor_ > 0
               /\ e.current_stage_ = e.red \div e.stage_factor_

\* ---------------------------------------------------- random engine claims
\* the consumer is inside cv_.wait of operator()
ConsumerWaits == eng[1].consumer \in {"asleep", "relock", "relocked"}

\* a block that is fully generated and not yet consumed
GeneratedBlockExists ==
    eng[1].full_blocks_ > 0 \/ eng[1].current_block = ElementsInBlock

\* C19: a call of operator() blocks only when block_consuming_ is exhausted
\* and no generated block is available: it sleeps only while full_blocks_ is
\* empty, it does not stay waiting while a fully generated, not yet consumed
\* block exists, and a call that finds values in block_consuming_ returns one
\* without taking the mutex or waiting.
C19_BlocksOnlyWithoutBlock ==
    /\ [](eng[1].consumer = "asleep" => eng[1].full_blocks_ = 0)
    /\ [][(eng[1].block_consuming_ > 0
            /\ eng'[1].block_consuming_ # eng[1].block_consuming_) =>
              /\ eng[1].consumer = "idle" /\ eng'[1].consumer = "idle"
              /\ eng'[1].mutex_ = eng[1].mutex_
              /\ eng'[1].block_consuming_ = eng[1].block_consuming_ - 1]_vars
    /\ []<>~(ConsumerWaits /\ GeneratedBlockExists)

\* ------------------------------------------------- sampling phase claims
\* the positions of run inside sample_run_lengths_and_plant_collisions and
\* behind it
InSampling == {"length", "second", "agent", "delayed", "interact"}
BehindSampling == {"remove", "task", "walk", "commit"}

\* C20: in the sampling phase d + u (num_delayed_agents_ plus the balls of
\* updated_agents_) never decreases across a planted run and grows across
\* every run whose run length is at least 1, so a phase whose run lengths are
\* all at least 1 ends after at most B runs (B the controller's current
\* value); every epoch plants at least one collision, every run starts with
\* d + u < B, and the phase ends with d + u >= B.
C20_SamplingProgress ==
    \A r \in BatchRuns :
        LET e == eng[r]
            B == e.target_epoch_length_.current_measurement_
            colliding == e.num_delayed_agents_ + e.updated_agents_.number_of_balls_
        IN  /\ e.planted.after >= e.planted.g
            /\ (e.planted.runs > 0 /\ e.planted.L >= 1) =>
                   e.planted.after > e.planted.g
            /\ (e.pc \in InSampling \cup BehindSampling /\ e.planted.positive) =>
                   e.planted.runs <= B
            /\ e.pc \in BehindSampling =>
                   e.planted.runs >= 1 /\ colliding >= B
            /\ e.pc = "length" => colliding < B
            /\ e.pc \in InSampling \ {"length"} => e.planted.after < B

\* a phase of three runs has ended, one of them with run length 0; the last
\* one had run length 1, took d + u from 5 to 6 and left two agents delayed
C20_Witness ==
    /\ eng[1].sim = "batch"
    /\ eng[1].pc \in BehindSampling
    /\ eng[1].planted.runs = 3
    /\ ~eng[1].planted.positive
    /\ eng[1].planted.L = 1
    /\ eng[1].planted.g = 5
    /\ eng[1].planted.after = 6
    /\ eng[1].num_delayed_agents_ = 2

\* the endpoint the simulator r is about to draw is a colliding one
DrawsColliding(r) ==
    /\ eng[r].pc = "agent"
    /\ IF eng[r].who = 1 THEN eng[r].has_collision_on_first
       ELSE eng[r].has_collision_on_second

\* C21: every time a colliding endpoint is drawn (the first or the second of a
\* planted collision), the Bernoulli draw between a delayed and an updated
\* agent has good = d and total = d + |updated| as they are at that draw:
\* the total handed to with_probability_ is the colliding pool of that moment.
C21_EndpointOdds ==
    \A r \in BatchRuns :
        DrawsColliding(r) =>
            eng[r].num_colliding_agents
                = eng[r].num_delayed_agents_
                  + eng[r].updated_agents_.number_of_balls_

\* C22: in the two-way bulk phase (deterministic or randomised) num_interactions
\* grows by exactly d/2, the delayed interactions resolved, with the skip
\* heuristic or without it (a skipped no-op counts like any other), so that
\* over an epoch num_interactions grows by the planted runs plus the delayed
\* pairs resolved during sampling plus d/2 at the start of the bulk phase.
C22_BulkCountsAll ==
    \A r \in BatchRuns :
        LET e == eng[r]
        IN  (e.pc = "commit" /\ ~is_one_way(e.protocol)) =>
               /\ e.num_interactions_ = e.phase.bulk0 + e.phase.delayed \div 2
               /\ e.num_interactions_
                    = e.phase.epoch0 + (e.num_runs_ - e.phase.runs0)
                      + e.phase.resolved + e.phase.delayed \div 2

\* the balls of the urn u are counted by nonnegative numbers
CountsHold(u) ==
    /\ \A c \in DOMAIN u.balls_with_color_ : u.balls_with_color_[c] >= 0
    /\ u.number_of_balls_ = SumTo(u.balls_with_color_, WU_number_of_colors(u))

\* C23: from any initial urn of N >= 2 balls and for any run lengths L >= 0
\* with g + L <= N (L >= 2 when g = 0) the engine never draws from an empty
\* urn and never removes more balls of a color than the urn holds:
\* sample_untouched_agent meets a non-empty agents urn, sample_delayed_agent
\* is entered with d >= 2 and two balls in agents, sample_updated_agent
\* meets a non-empty updated urn, and the bulk phase finds d/2 first and d/2
\* second partners in agents.
C23_NoEmptyDraw ==
    \A r \in BatchRuns :
        LET e == eng[r]
            d == e.num_delayed_agents_
        IN  /\ CountsHold(e.agents_) /\ CountsHold(e.updated_agents_)
            /\ (e.pc = "agent" /\ ~DrawsColliding(r)) =>
                   e.agents_.number_of_balls_ >= 1
            /\ (DrawsColliding(r) /\ d < e.num_colliding_agents) =>
                   e.updated_agents_.number_of_balls_ >= 1
            /\ DrawsColliding(r) => e.num_colliding_agents >= 1
            /\ e.pc = "delayed" => d >= 2 /\ e.agents_.number_of_balls_ >= 2
            /\ e.pc = "remove" =>
                   /\ e.left_to_sample <= e.unconsidered_balls
                   /\ e.agents_.number_of_balls_ - e.left_to_sample >= d \div 2
            /\ e.pc = "task" =>
                   e.first_agents_[e.task][2] <= e.agents_.number_of_balls_
            /\ e.pc = "walk" => e.left_to_sample <= e.unconsidered_balls
            /\ e.pc = "undefined" => partitioned(e)

\* the bulk phase of a small population starts with agents holding exactly
\* the d >= 4 delayed agents, after a delayed pair was resolved while sampling
C23_Witness ==
    /\ eng[1].sim = "batch"
    /\ eng[1].pc = "remove"
    /\ eng[1].num_delayed_agents_ >= 4
    /\ eng[1].agents_.number_of_balls_ = eng[1].num_delayed_agents_
    /\ eng[1].phase.resolved >= 1

GeneratorSleeps == eng[1].generator \in {"asleep", "start_asleep"}

\* C25: for every num_blocks >= 1 and under fair scheduling of the generator
\* thread and the consumer, every call of operator() eventually returns a
\* value, and in no reachable state the consumer sleeps waiting for a full
\* block while the generator sleeps waiting for an empty block.
C25_EveryCallReturns ==
    /\ [](eng[1].num_blocks >= 1 =>
             ~(eng[1].consumer = "asleep" /\ GeneratorSleeps))
    /\ (eng[1].num_blocks >= 1 /\ eng[1].consumer # "idle")
          ~> (eng[1].consumer = "idle")

\* C26: destroying an AsyncRandomEngine always terminates: once the
\* destructor has set running_ to false and notified the condition variable,
\* the generator thread exits and join() returns, wherever the generator was
\* at that moment and for any num_blocks >= 0.
C26_DestructorReturns ==
    (eng[1].destructor # "alive") ~> (eng[1].destructor = "joined")

\* the balls of color c the alias table of u holds: the primary slot of row
\* c and the secondary slots of the rows whose alias color is c
TableBalls(u, c) ==
    u.alias_table_[c].w0
      + SumOver([r \in DOMAIN u.alias_table_ |->
                    IF u.alias_table_[r].color2 = c THEN u.alias_table_[r].w1
                    ELSE 0],
                DOMAIN u.alias_table_)

\* C27: after any sequence of AliasUrnSimple operations (add_balls with n > 0,
\* add_balls with n < 0 and count >= -n, remove_random_ball, local repair,
\* rebuild) every slot weight of every row is non-negative and, for each color
\* c, the primary slot of row c plus the secondary slots of the rows with
\* alias color c equal number_of_balls_with_color(c).
C27_SlotsNonNegative ==
    (kind = "alias"
       /\ last.op \in {"bulk_commit", "add_balls", "remove_random_ball"}) =>
        /\ AU_slots_hold(urn)
        /\ \A c \in DOMAIN urn.alias_table_ :
              TableBalls(urn, c) = urn.balls_with_color_[c]

\* ================================= the transaction tables of the constructor
\* the tables are built for a deterministic protocol: one of
\* src/include/protocols, or a protocol known by its answers only
MaxTableStates == 2

TableProtocols == DetProtocols \cup {"table_oneway", "table_twoway"}

\* Protocols::is_one_way of a protocol the tables are built for
table_one_way(p) == p = "table_oneway" \/ (p \in DetProtocols /\ is_one_way(p))

\* the numbers of states a protocol is constructed with
TableStates(p) ==
    CASE p = "majority" -> {4}
      [] p = "leader" -> {2}
      [] OTHER -> 1 .. MaxTableStates

\* Protocols::transition on (first, second): what the protocol may answer
Answers(p, S, first, second) ==
    CASE p = "table_twoway" ->
            {<<first, second>>, <<second, first>>,
             <<(first + 1) % S, second>>, <<first, (second + 1) % S>>}
      [] p = "table_oneway" -> {<<a, second>> : a \in 0 .. S - 1}
      [] OTHER -> transition(p, S, first, second)

\* the constructor at the head of its table loop; delta keeps the answers of
\* the protocol in the order of the queries, (first, second) at first * S +
\* second + 1
TableBuilder(p, S) ==
    [sim |-> "tables", protocol |-> p, num_states |-> S,
     pc |-> IF table_one_way(p) THEN "partition" ELSE "skip",
     first |-> 0, second |-> 0, delta |-> <<>>,
     skip_trans |-> [i \in 0 .. S - 1 |-> <<>>], skips |-> 0,
     use_skip_heuristic_ |-> FALSE,
     row_map |-> <<>>, mapping |-> <<>>,
     first_state |-> 0, skips_iter |-> 1, considered |-> {}]

\* the answer the protocol gave on (first, second)
Delta(b, first, second) == b.delta[first * b.num_states + second + 1]

\* transactions_without_change: no_change of the pair and its answer
no_change(first, second, to) ==
    to = <<first, second>> \/ (first = to[2] /\ second = to[1])

\* a skip list that takes every new partner at its front
skip_emplace_front(row, second) == <<second>> \o row

\* skip_trans[first].emplace_back(second)
skip_emplace(row, second) == Append(row, second)

\* the heuristic switched on from S entries on
skip_enabled_from(skips, S) == skips >= S

\* the constructor's use_skip_heuristic_ = (skips > number_of_colors)
skip_enabled(skips, S) == skips > S

\* the two nested loops' counters after the pair (first, second)
NextPair(b) ==
    IF b.second + 1 < b.num_states
    THEN [b EXCEPT !.second = @ + 1]
    ELSE [b EXCEPT !.first = @ + 1, !.second = 0]

\* transactions_without_change: one pass of the inner loop with the
\* protocol's answer to; the pass that ends the loops returns to the
\* constructor, which sets use_skip_heuristic_
transactions_without_change(b, to) ==
    LET nc == no_change(b.first, b.second, to)
        s == NextPair([b EXCEPT
                 !.delta = Append(@, to),
                 !.skips = @ + (IF nc THEN 1 ELSE 0),
                 !.skip_trans[b.first] =
                     IF nc THEN skip_emplace(@, b.second) ELSE @])
    IN  IF s.first < s.num_states THEN s
        ELSE [s EXCEPT !.pc = "built",
                       !.use_skip_heuristic_ = skip_enabled(s.skips, s.num_states)]

\* a row map that keeps only the last partner of a key
row_map_assign(m, key, second) ==
    IF key \in DOMAIN m THEN [m EXCEPT ![key] = <<second>>]
    ELSE m @@ (key :> <<second>>)

\* row_map[to.first].emplace_back(from.second) on the std::map row_map
row_map_emplace(m, key, second) ==
    IF key \in DOMAIN m THEN [m EXCEPT ![key] = Append(@, second)]
    ELSE m @@ (key :> <<second>>)

\* the groups of a std::map in the order of its keys, as (seconds, key)
row_of_map(m) ==
    LET keys == SortedSeq(DOMAIN m)
    IN  [i \in 1 .. Len(keys) |-> <<m[keys[i]], keys[i]>>]

\* parition_oneway_transactions: one pass of the inner loop with the
\* protocol's answer to; the last pass of a row moves the row into mapping
parition_oneway_transactions(b, to) ==
    LET m == row_map_emplace(b.row_map, to[1], b.second)
        s == NextPair([b EXCEPT !.delta = Append(@, to), !.row_map = m])
        t == IF s.second # 0 THEN s
             ELSE [s EXCEPT !.row_map = <<>>,
                            !.mapping = Append(@, row_of_map(m))]
    IN  IF t.first < t.num_states THEN t ELSE [t EXCEPT !.pc = "built"]

\* process_delayed_agents, the walk over the second states of one task as
\* far as the skip list steers it: the pass for second = considered up to now
skip_walk(b) ==
    LET skips == b.skip_trans[b.first_state]
        RECURSIVE advance(_)
        advance(it) ==
            IF it <= Len(skips) /\ skips[it] < b.second THEN advance(it + 1)
            ELSE it
        it == IF b.use_skip_heuristic_ THEN advance(b.skips_iter)
              ELSE b.skips_iter
        skip == b.use_skip_heuristic_ /\ it <= Len(skips) /\ skips[it] = b.second
    IN  [b EXCEPT !.skips_iter = it,
                  !.considered = IF skip THEN @ ELSE @ \cup {b.second},
                  !.second = @ + 1]

TableInit ==
    /\ NoUrn
    /\ \E p \in TableProtocols, S \in 1 .. Max(4, MaxTableStates) :
          /\ S \in TableStates(p)
          /\ eng = <<TableBuilder(p, S)>>

\* the constructor asks the protocol for one pair of the skip table
SkipTableStep ==
    /\ eng[1].pc = "skip"
    /\ \E to \in Answers(eng[1].protocol, eng[1].num_states,
                         eng[1].first, eng[1].second) :
          eng' = <<transactions_without_change(eng[1], to)>>
    /\ UNCHANGED <<kind, urn, ref, last, walk>>

\* the constructor asks the protocol for one pair of the partition table
PartitionStep ==
    /\ eng[1].pc = "partition"
    /\ \E to \in Answers(eng[1].protocol, eng[1].num_states,
                         eng[1].first, eng[1].second) :
          eng' = <<parition_oneway_transactions(eng[1], to)>>
    /\ UNCHANGED <<kind, urn, ref, last, walk>>

\* a task of the bulk phase starts its walk at second = 0
SkipWalkBegin ==
    /\ eng[1].pc = "built"
    /\ ~table_one_way(eng[1].protocol)
    /\ \E first_state \in 0 .. eng[1].num_states - 1 :
          eng' = <<[eng[1] EXCEPT !.pc = "walk", !.first_state = first_state,
                                  !.second = 0, !.skips_iter = 1,
                                  !.considered = {}]>>
    /\ UNCHANGED <<kind, urn, ref, last, walk>>

SkipWalkStep ==
    /\ eng[1].pc = "walk"
    /\ eng[1].second < eng[1].num_states
    /\ eng' = <<skip_walk(eng[1])>>
    /\ UNCHANGED <<kind, urn, ref, last, walk>>

TableNext ==
    \/ SkipTableStep
    \/ PartitionStep
    \/ SkipWalkBegin
    \/ SkipWalkStep

SpecTables == TableInit /\ [][TableNext]_vars

\* the entries of a sequence
Entries(q) == {q[i] : i \in DOMAIN q}

\* C28: for a two-way deterministic protocol over S states the no-op table
\* built at construction holds s2 in skips[s1] exactly when delta(s1, s2) is
\* (s1, s2) or (s2, s1), every skips[s1] is strictly increasing, the skip
\* heuristic is enabled exactly when the table has more than S entries, and
\* the walk of the bulk phase therefore passes over exactly the partners of
\* the list.
C28_SkipTable ==
    (eng[1].sim = "tables" /\ eng[1].pc \in {"built", "walk"}
       /\ ~table_one_way(eng[1].protocol)) =>
        LET b == eng[1]
            States == 0 .. b.num_states - 1
            noop(s1, s2) ==
                Delta(b, s1, s2) \in {<<s1, s2>>, <<s2, s1>>}
        IN  /\ \A s1, s2 \in States :
                  s2 \in Entries(b.skip_trans[s1]) <=> noop(s1, s2)
            /\ \A s1 \in States : \A i, j \in DOMAIN b.skip_trans[s1] :
                  i < j => b.skip_trans[s1][i] < b.skip_trans[s1][j]
            /\ b.use_skip_heuristic_
                  <=> SumOver([s1 \in States |-> Len(b.skip_trans[s1])],
                              States) > b.num_states
            /\ b.pc = "walk" =>
                  b.considered
                    = {s2 \in 0 .. b.second - 1 :
                          ~(b.use_skip_heuristic_ /\ noop(b.first_state, s2))}

\* a walk of a task has passed a partner of the skip list without
\* considering it
C28_Witness ==
    /\ eng[1].sim = "tables"
    /\ eng[1].pc = "walk"
    /\ eng[1].use_skip_heuristic_
    /\ eng[1].second = eng[1].num_states
    /\ eng[1].considered # {}
    /\ Len(eng[1].skip_trans[eng[1].first_state]) >= 2

\* C29: for a one-way deterministic protocol and every s1 the list of
\* (partner set, output state) pairs is a partition: the sets are non-empty,
\* pairwise disjoint and cover [0, S), the outputs are distinct, and s2 is in
\* the set paired with o exactly when delta(s1, s2) = o.
C29_Partition ==
    (eng[1].sim = "tables" /\ eng[1].pc = "built"
       /\ table_one_way(eng[1].protocol)) =>
        LET b == eng[1]
            States == 0 .. b.num_states - 1
        IN  /\ Len(b.mapping) = b.num_states
            /\ \A s1 \in States :
                  LET row == b.mapping[s1 + 1]
                  IN  /\ \A i \in DOMAIN row : row[i][1] # <<>>
                      /\ \A i, j \in DOMAIN row :
                            i # j =>
                               /\ Entries(row[i][1]) \cap Entries(row[j][1]) = {}
                               /\ row[i][2] # row[j][2]
                      /\ UNION {Entries(row[i][1]) : i \in DOMAIN row} = States
                      /\ \A i \in DOMAIN row : \A s2 \in States :
                            s2 \in Entries(row[i][1])
                               <=> Delta(b, s1, s2)[1] = row[i][2]

\* a finished mapping with a row of two groups and a row with a group of two
\* partners
C29_Witness ==
    /\ eng[1].sim = "tables"
    /\ eng[1].pc = "built"
    /\ table_one_way(eng[1].protocol)
    /\ \E s1 \in 1 .. Len(eng[1].mapping) : Len(eng[1].mapping[s1]) >= 2
    /\ \E s1 \in 1 .. Len(eng[1].mapping) :
          \E i \in DOMAIN eng[1].mapping[s1] :
             Len(eng[1].mapping[s1][i][1]) >= 2

\* ================================ CollisionDisitribution, the two searches
\* the doubles of reg_falsi are the multiples of 1 / Resolution, every
\* quotient rounded to the nearest of them; the target function is known by
\* its answers, and the build has assert() compiled in or out
MaxBracket == 4     \* largest k_hi of a bracket
Resolution == 16    \* doubles per unit
MaxValue == 31      \* largest magnitude the target function takes
kMaxInterpolations == 15

TargetValues == {0 - MaxValue, -1, 0, 1, MaxValue}

\* CollisionDisitribution::midpoint that stays on the left end
midpoint_left(left, right) == left

\* CollisionDisitribution::midpoint
midpoint(left, right) == left + (right - left) \div 2

\* the quotient num / den of two doubles, den # 0
Quotient(num, den) ==
    IF den > 0 THEN (2 * num + den) \div (2 * den)
    ELSE (2 * (0 - num) - den) \div (2 * (0 - den))

\* what a target function that is monotone in direction dir may answer at x
\* after the answers in known
TargetAnswers(known, dir, x) ==
    IF \E a \in known : a[1] = x THEN {a[2] : a \in {c \in known : c[1] = x}}
    ELSE {v \in TargetValues :
            \A a \in known :
               /\ a[1] < x => IF dir = "up" THEN a[2] <= v ELSE a[2] >= v
               /\ a[1] > x => IF dir = "up" THEN v <= a[2] ELSE v >= a[2]}

\* compute: the search of one bracket [k_lo, k_hi] by routine (bisection for
\* n_green_ < 1e6 or a small uniform, reg_falsi otherwise); known holds the
\* target function at both ends of the bracket
Search(routine, asserts, dir, k_lo, k_hi, v_lo, v_hi) ==
    [sim |-> "search", routine |-> routine, asserts |-> asserts, dir |-> dir,
     k_lo |-> k_lo, k_hi |-> k_hi,
     known |-> {<<k_lo * Resolution, v_lo>>, <<k_hi * Resolution, v_hi>>},
     pc |-> routine, left |-> k_lo, right |-> k_hi, shrunk |-> TRUE,
     x0 |-> 0, x1 |-> 0, f0 |-> 0, f1 |-> 0, i |-> 0, res |-> 0]

\* bisection: the loop test and one pass with the answer value at mid, or the
\* return of left
bisection(s) ==
    IF s.left + 1 < s.right
    THEN LET mid == midpoint(s.left, s.right)
         IN  {LET t == IF value > 0 THEN [s EXCEPT !.right = mid]
                       ELSE [s EXCEPT !.left = mid]
              IN  [t EXCEPT !.known = @ \cup {<<mid * Resolution, value>>},
                            !.shrunk = t.right - t.left < s.right - s.left]
              : value \in TargetAnswers(s.known, s.dir, mid * Resolution)}
    ELSE {[s EXCEPT !.pc = "returned", !.res = s.left]}

\* reg_falsi up to its loop: the bisection step and the second function value
reg_falsi_start(s) ==
    IF s.k_lo + 1 >= s.k_hi
    THEN {[s EXCEPT !.pc = "returned", !.res = s.k_lo]}
    ELSE LET mid == midpoint(s.k_lo, s.k_hi) * Resolution
             x0int == s.k_lo * Resolution
             x1int == s.k_hi * Resolution
         IN  UNION {
               LET k1 == s.known \cup {<<mid, val>>}
                   other == IF val < 0 THEN x1int ELSE x0int
               IN  {LET t == [s EXCEPT
                                !.known = k1 \cup {<<other, f>>},
                                !.x0 = IF val < 0 THEN mid ELSE x0int,
                                !.f0 = IF val < 0 THEN val ELSE f,
                                !.x1 = IF val < 0 THEN x1int ELSE mid,
                                !.f1 = IF val < 0 THEN f ELSE val]
                    IN  IF t.f0 = 0
                        THEN [t EXCEPT !.pc = "returned", !.res = s.k_lo]
                        ELSE [t EXCEPT !.pc = "interpolate"]
                    : f \in TargetAnswers(k1, s.dir, other)}
               : val \in TargetAnswers(s.known, s.dir, mid)}

\* the final call bisection(f, x0, min(x1int, x1 + 1)) on the integer parts
reg_falsi_finish(s) ==
    [s EXCEPT !.pc = "bisection",
              !.left = s.x0 \div Resolution,
              !.right = Min(s.k_hi, s.x1 \div Resolution + 1)]

\* reg_falsi: one pass of the interpolation loop, or the loop's end; a
\* quotient by f1 - f0 = 0 is no number between x0 and x1
reg_falsi(s) ==
    IF s.i >= kMaxInterpolations THEN {reg_falsi_finish(s)}
    ELSE IF s.x0 + Resolution >= s.x1
    THEN {[s EXCEPT !.pc = "returned", !.res = s.x0 \div Resolution]}
    ELSE IF s.asserts /\ ~(s.x0 < s.x1 /\ s.f0 < 0 /\ s.f1 >= 0)
    THEN {[s EXCEPT !.pc = "aborted"]}
    ELSE LET new_x == IF s.f1 = s.f0 THEN s.x0
                      ELSE Quotient(s.x0 * s.f1 - s.x1 * s.f0, s.f1 - s.f0)
         IN  IF ~(s.x0 < new_x /\ new_x < s.x1) THEN {reg_falsi_finish(s)}
             ELSE {LET t == IF new_f < 0
                            THEN [s EXCEPT !.x0 = new_x, !.f0 = new_f]
                            ELSE [s EXCEPT !.x1 = new_x, !.f1 = new_f]
                   IN  [t EXCEPT !.known = @ \cup {<<new_x, new_f>>},
                                 !.i = @ + 1]
                   : new_f \in TargetAnswers(s.known, s.dir, new_x)}

SearchInit ==
    /\ NoUrn
    /\ \E routine \in {"bisection", "reg_falsi"}, asserts \in BOOLEAN,
          dir \in {"up", "down"}, k_lo, k_hi \in 0 .. MaxBracket,
          v_lo, v_hi \in TargetValues :
          /\ k_lo <= k_hi
          /\ IF k_lo = k_hi THEN v_lo = v_hi
             ELSE IF dir = "up" THEN v_lo <= v_hi ELSE v_lo >= v_hi
          /\ eng = <<Search(routine, asserts, dir, k_lo, k_hi, v_lo, v_hi)>>

Bisection ==
    /\ eng[1].pc = "bisection"
    /\ \E t \in bisection(eng[1]) : eng' = <<t>>
    /\ UNCHANGED <<kind, urn, ref, last, walk>>

RegFalsiStart ==
    /\ eng[1].pc = "reg_falsi"
    /\ \E t \in reg_falsi_start(eng[1]) : eng' = <<t>>
    /\ UNCHANGED <<kind, urn, ref, last, walk>>

RegFalsi ==
    /\ eng[1].pc = "interpolate"
    /\ \E t \in reg_falsi(eng[1]) : eng' = <<t>>
    /\ UNCHANGED <<kind, urn, ref, last, walk>>

SearchNext ==
    \/ Bisection
    \/ RegFalsiStart
    \/ RegFalsi

SpecSearch == SearchInit /\ [][SearchNext]_vars /\ WF_vars(SearchNext)

\* the answers at the ends of the bracket
TargetAt(s, k) == CHOOSE v \in TargetValues : <<k * Resolution, v>> \in s.known

\* the precondition reg_falsi asserts: a non-decreasing target function that
\* is not positive at k_lo and not negative at k_hi
SignChange(s) ==
    s.dir = "up" /\ TargetAt(s, s.k_lo) <= 0 /\ TargetAt(s, s.k_hi) >= 0

\* a search in progress keeps to its bracket and its step budget, and a
\* finished one has returned a k of the bracket
SearchInBracket ==
    LET s == eng[1]
    IN  /\ s.pc # "aborted"
        /\ s.pc = "returned" => s.k_lo <= s.res /\ s.res <= s.k_hi
        /\ s.pc = "bisection" =>
              /\ s.shrunk
              /\ s.k_lo <= s.left /\ s.left <= s.right /\ s.right <= s.k_hi
        /\ s.i <= kMaxInterpolations
        /\ s.pc = "interpolate" =>
              /\ s.k_lo * Resolution <= s.x0
              /\ s.x0 <= s.x1
              /\ s.x1 <= s.k_hi * Resolution

====
